---- MODULE Spec2Model ----
(***************************************************************************)
(* Protocol engine of realtime-js: one RealtimeClient (socket, heartbeat,  *)
(* reconnect backoff, send buffer, ref counter) and its RealtimeChannels   *)
(* (join/leave state machine, join Push, rejoin backoff).                  *)
(*                                                                         *)
(* A JavaScript macrotask (a user call, a transport event, a timer firing) *)
(* together with the microtasks it queues is one atomic action.  The       *)
(* methods are operators from program state to program state, composed as  *)
(* the source composes them; an action applies the handler to the current  *)
(* state (Cur) and commits the result.                                     *)
(***************************************************************************)
EXTENDS Integers, Sequences, FiniteSets, TLC

VARIABLES
  topic,                \* RealtimeChannel.topic, fixed at construction
  conn,                 \* RealtimeClient.conn: "null" or the socket's readyState
  channels,             \* RealtimeClient.channels (array of channels)
  sendBuffer,           \* RealtimeClient.sendBuffer (frames of the buffered closures)
  wire,                 \* requests sent on the current connection, not yet answered
  seen,                 \* join frames the server has seen on the current connection
  ref,                  \* RealtimeClient.ref
  pendingHeartbeatRef,  \* RealtimeClient.pendingHeartbeatRef (or Null)
  heartbeatTimer,       \* the heartbeat interval is running
  reconnectTimer,       \* RealtimeClient.reconnectTimer
  chan,                 \* the fields of every RealtimeChannel
  pushed,               \* frames handed to RealtimeClient.push by the last step
  sent,                 \* frames given to conn.send by the last step, in order
  cbs,                  \* subscribe callbacks invoked by the last step
  resolved,             \* unsubscribe() promises resolved by the last step
  closeArgs,            \* arguments of conn.close() calls made by the last step
  thrown,               \* an exception escaped the handler of the last step
  accessToken,          \* RealtimeClient.accessToken
  pcbs,                 \* presence callbacks invoked by the last step, in order
  response,             \* postgres_changes of the reply the last step received
  frame,                \* Serializer: the message given to encode
  raw,                  \* Serializer: what encode passed to its callback
  back,                 \* Serializer: what decode passed to its callback
  backoff,              \* a backoff timer on its own, with the host's pending firings
  op                    \* the last step taken

vars == <<topic, conn, channels, sendBuffer, wire, seen, ref, pendingHeartbeatRef,
          heartbeatTimer, reconnectTimer, chan, pushed, sent, cbs, resolved, closeArgs,
          thrown, accessToken, pcbs, response, frame, raw, back, backoff, op>>

(***************************************************************************)
(* Bounds of the model.                                                    *)
(***************************************************************************)
MaxRef == 5        \* no step takes the ref counter beyond it
MaxTries == 2      \* no step leaves a timer with more tries than this
MaxSubs == 2       \* subscribe() calls that register a callback, per channel
MaxPushRef == 104  \* no track() takes the ref counter beyond it
MaxChanges == 2    \* postgres_changes bindings per channel, and entries of a reply
MaxPending == 2    \* presence diffs pending in a channel
MaxPresence == 2   \* presence bindings per channel
MaxBufferRef == 7  \* no send() and no drain of the push buffer takes the ref counter beyond it
MaxHandles == 10   \* timeouts the host hands to the backoff timer on its own

Chans == {1, 2}

\* the channels the user drives in Spec; the other stays as constructed
Driven == {1}

\* src/src/constants.ts
WS_CLOSE_NORMAL == 1000

\* src/src/lib/channel-config.ts
MAX_PUSH_BUFFER_SIZE == 100

\* The number at which ref + 1 === ref, where _makeRef restarts the counter:
\* Number.MAX_SAFE_INTEGER + 1 = 2^53 in the code, scaled down here.
RefWrap == 1000

\* the counter value two calls before the restart
RefStart == RefWrap - 2

\* null, which no ref equals (the counter passes through 0 when it wraps)
Null == -1

\* the value of accessToken when the client holds no token (null or undefined)
NoToken == "none"

\* response.postgres_changes of a reply: undefined, or the server's list
NoChanges == [defined |-> FALSE, list |-> <<>>]
Changes(list) == [defined |-> TRUE, list |-> list]

ChannelEvents == {"phx_close", "phx_error", "phx_leave", "phx_join"}

\* a map without keys, and the payload of a message that is no presence
\* message
NoKeys == [k \in {} |-> <<>>]
NoPayload == [state |-> NoKeys, joins |-> NoKeys, leaves |-> NoKeys]

(***************************************************************************)
(* The program state as one record, so that methods compose.               *)
(***************************************************************************)

Cur ==
  [conn |-> conn, channels |-> channels, sendBuffer |-> sendBuffer, wire |-> wire,
   seen |-> seen, ref |-> ref, pendingHeartbeatRef |-> pendingHeartbeatRef,
   heartbeatTimer |-> heartbeatTimer, reconnectTimer |-> reconnectTimer,
   chan |-> chan, micro |-> <<>>, pushed |-> <<>>, sent |-> <<>>, cbs |-> <<>>,
   resolved |-> <<>>,
   closeArgs |-> <<>>, thrown |-> FALSE, accessToken |-> accessToken, pcbs |-> <<>>,
   response |-> NoChanges, payload |-> NoPayload]

Frame(t, e, r, jr) == [topic |-> t, event |-> e, ref |-> r, join_ref |-> jr]

Rep(n, x) == [i \in 1..n |-> x]

(***************************************************************************)
(* lib/timer: the backoff timer.  tries counts the schedules since the     *)
(* last reset; timer says whether a firing is pending.                     *)
(***************************************************************************)
Timer_new == [timer |-> FALSE, tries |-> 0]

Timer_reset(t) == [timer |-> FALSE, tries |-> 0]

Timer_scheduleTimeout(t) == [timer |-> TRUE, tries |-> t.tries + 1]

\* the pending firing is consumed when the callback runs
Timer_fired(t) == [t EXCEPT !.timer = FALSE]

(***************************************************************************)
(* The backoff timer with the host's timeouts.  timer is the handle of the *)
(* timeout the timer armed last (Null: none), pending the host's timeouts  *)
(* that have neither fired nor been cancelled, each with its handle and    *)
(* its delay, handles the number of handles the host has handed out.       *)
(***************************************************************************)
Backoff_new == [timer |-> Null, tries |-> 0, pending |-> {}, handles |-> 0]

\* RealtimeClient.reconnectAfterMs, the default delay function
reconnectAfterMs(tries) ==
  CASE tries = 1 -> 1000
    [] tries = 2 -> 2000
    [] tries = 3 -> 5000
    [] OTHER -> 10000

clearTimeout(b, handle) == [b EXCEPT !.pending = {f \in @ : f.handle # handle}]

setTimeout(b, delay) ==
  [b EXCEPT !.handles = @ + 1,
            !.pending = @ \cup {[handle |-> b.handles + 1, delay |-> delay]},
            !.timer = b.handles + 1]

\* faulty variant: schedule() that leaves the prior firing pending
schedule_keepsPrior(b) ==
  [setTimeout(b, reconnectAfterMs(b.tries + 1)) EXCEPT !.tries = @ + 1]

schedule(b) ==
  [setTimeout(clearTimeout(b, b.timer), reconnectAfterMs(b.tries + 1))
     EXCEPT !.tries = @ + 1]

reset(b) == [clearTimeout(b, b.timer) EXCEPT !.tries = 0, !.timer = Null]

\* the host runs the timeout f: it is pending no more
fire(b, f) == [b EXCEPT !.pending = @ \ {f}]

(***************************************************************************)
(* lib/serializer.  Strings are sequences of character codes, buffers      *)
(* sequences of bytes, JSON texts sequences of character codes.  A value   *)
(* is null, a string, an object (its members in order, each a key and a    *)
(* value), an array (its elements in order), an ArrayBuffer, a text,       *)
(* undefined, or the mark of a thrown exception.                           *)
(***************************************************************************)
HEADER_LENGTH == 1
META_LENGTH == 4
KINDS == [push |-> 0, reply |-> 1, broadcast |-> 2]

JNull == [t |-> "null", s |-> <<>>, kv |-> <<>>]
JStr(s) == [t |-> "str", s |-> s, kv |-> <<>>]
JObj(kv) == [t |-> "obj", s |-> <<>>, kv |-> kv]
JArr(vs) == [t |-> "arr", s |-> <<>>, kv |-> vs]
Buf(bytes) == [t |-> "buf", s |-> bytes, kv |-> <<>>]
Text(chars) == [t |-> "text", s |-> chars, kv |-> <<>>]
Undefined == [t |-> "undefined", s |-> <<>>, kv |-> <<>>]
Thrown == [t |-> "throw", s |-> <<>>, kv |-> <<>>]

Msg(jr, r, tp, ev, pl) ==
  [join_ref |-> jr, ref |-> r, topic |-> tp, event |-> ev, payload |-> pl]

\* "phx_reply"
CHANNEL_EVENTS_reply == <<112, 104, 120, 95, 114, 101, 112, 108, 121>>

\* JSON.stringify of a string: the quote and the backslash are escaped
RECURSIVE JSON_escape(_)
JSON_escape(s) ==
  IF s = <<>> THEN <<>>
  ELSE (IF Head(s) \in {34, 92} THEN <<92, Head(s)>> ELSE <<Head(s)>>)
         \o JSON_escape(Tail(s))

JSON_quote(s) == <<34>> \o JSON_escape(s) \o <<34>>

\* JSON.stringify: an ArrayBuffer has no enumerable property and gives {},
\* undefined inside an array gives null
RECURSIVE JSON_stringify(_)
RECURSIVE JSON_elements(_)
JSON_elements(vs) ==
  IF vs = <<>> THEN <<>>
  ELSE JSON_stringify(vs[1])
         \o (IF Len(vs) > 1 THEN <<44>> \o JSON_elements(Tail(vs)) ELSE <<>>)

RECURSIVE JSON_members(_)
JSON_members(kv) ==
  IF kv = <<>> THEN <<>>
  ELSE JSON_quote(kv[1][1]) \o <<58>> \o JSON_stringify(kv[1][2])
         \o (IF Len(kv) > 1 THEN <<44>> \o JSON_members(Tail(kv)) ELSE <<>>)

JSON_stringify(v) ==
  CASE v.t = "str" -> JSON_quote(v.s)
    [] v.t = "obj" -> <<123>> \o JSON_members(v.kv) \o <<125>>
    [] v.t = "arr" -> <<91>> \o JSON_elements(v.kv) \o <<93>>
    [] v.t = "buf" -> <<123, 125>>
    [] OTHER -> <<110, 117, 108, 108>>

JSON_stringifyArray(vs) == JSON_stringify(JArr(vs))

\* the character at position i of a text, 0 past its end
At(txt, i) == IF i >= 1 /\ i <= Len(txt) THEN txt[i] ELSE 0

\* the result of a parser that met a SyntaxError
Fail == [v |-> Thrown, i |-> 0]

\* the value of a hexadecimal digit, -1 for any other character
HexVal(ch) ==
  CASE ch >= 48 /\ ch <= 57 -> ch - 48
    [] ch >= 65 /\ ch <= 70 -> ch - 55
    [] ch >= 97 /\ ch <= 102 -> ch - 87
    [] OTHER -> -1

\* the character an escape sequence stands for, -1 when there is none
Unescape(ch) ==
  CASE ch \in {34, 47, 92} -> ch
    [] ch = 98 -> 8
    [] ch = 102 -> 12
    [] ch = 110 -> 10
    [] ch = 114 -> 13
    [] ch = 116 -> 9
    [] OTHER -> -1

\* JSON.parse of a text without whitespace, numbers, true and false: each
\* parser returns the value read and the position after it, or Fail.
\* parseChars reads a string from the character after its opening quote.
RECURSIVE JSON_parseChars(_, _, _)
JSON_parseChars(txt, i, acc) ==
  LET ch == At(txt, i)
      h == [k \in 1..4 |-> HexVal(At(txt, i + 1 + k))]
  IN CASE ch = 34 -> [v |-> JStr(acc), i |-> i + 1]
       [] ch = 92 /\ At(txt, i + 1) = 117 ->
            IF \E k \in 1..4 : h[k] < 0 THEN Fail
            ELSE JSON_parseChars(txt, i + 6,
                   Append(acc, ((h[1] * 16 + h[2]) * 16 + h[3]) * 16 + h[4]))
       [] ch = 92 /\ At(txt, i + 1) # 117 ->
            IF Unescape(At(txt, i + 1)) < 0 THEN Fail
            ELSE JSON_parseChars(txt, i + 2, Append(acc, Unescape(At(txt, i + 1))))
       [] ch < 32 -> Fail
       [] OTHER -> JSON_parseChars(txt, i + 1, Append(acc, ch))

\* parseMembers reads the members of an object from the first character of a
\* member, parseElements the elements of an array from the first character
\* of an element
RECURSIVE JSON_parseValue(_, _)
RECURSIVE JSON_parseMembers(_, _, _)
JSON_parseMembers(txt, i, acc) ==
  LET key == IF At(txt, i) = 34 THEN JSON_parseChars(txt, i + 1, <<>>) ELSE Fail
      val == IF key.v # Thrown /\ At(txt, key.i) = 58
             THEN JSON_parseValue(txt, key.i + 1) ELSE Fail
      kv == Append(acc, <<key.v.s, val.v>>)
  IN CASE val.v = Thrown -> Fail
       [] val.v # Thrown /\ At(txt, val.i) = 44 -> JSON_parseMembers(txt, val.i + 1, kv)
       [] val.v # Thrown /\ At(txt, val.i) = 125 -> [v |-> JObj(kv), i |-> val.i + 1]
       [] OTHER -> Fail

RECURSIVE JSON_parseElements(_, _, _)
JSON_parseElements(txt, i, acc) ==
  LET val == JSON_parseValue(txt, i)
      vs == Append(acc, val.v)
  IN CASE val.v = Thrown -> Fail
       [] val.v # Thrown /\ At(txt, val.i) = 44 -> JSON_parseElements(txt, val.i + 1, vs)
       [] val.v # Thrown /\ At(txt, val.i) = 93 -> [v |-> JArr(vs), i |-> val.i + 1]
       [] OTHER -> Fail

JSON_parseValue(txt, i) ==
  LET ch == At(txt, i)
  IN CASE ch = 34 -> JSON_parseChars(txt, i + 1, <<>>)
       [] ch = 123 -> IF At(txt, i + 1) = 125 THEN [v |-> JObj(<<>>), i |-> i + 2]
                      ELSE JSON_parseMembers(txt, i + 1, <<>>)
       [] ch = 91 -> IF At(txt, i + 1) = 93 THEN [v |-> JArr(<<>>), i |-> i + 2]
                     ELSE JSON_parseElements(txt, i + 1, <<>>)
       [] ch = 110 -> IF <<At(txt, i + 1), At(txt, i + 2), At(txt, i + 3)>> = <<117, 108, 108>>
                      THEN [v |-> JNull, i |-> i + 4] ELSE Fail
       [] OTHER -> Fail

\* JSON.parse: the whole text is one value, or a SyntaxError is thrown
JSON_parse(txt) ==
  LET r == JSON_parseValue(txt, 1)
  IN IF r.v # Thrown /\ r.i = Len(txt) + 1 THEN r.v ELSE Thrown

\* DataView.setUint8 keeps the low byte
Uint8(n) == n % 256

\* Array.from(str, char => view.setUint8(offset++, char.charCodeAt(0)))
CharCodes(s) == [i \in 1..Len(s) |-> Uint8(s[i])]

\* join_ref!.length and ref!.length throw on null
Serializer_binaryEncode(message) ==
  LET join_ref == message.join_ref
      ref_ == message.ref
      event == message.event
      topic_ == message.topic
      payload == message.payload
  IN IF join_ref.t # "str" \/ ref_.t # "str" THEN Thrown
     ELSE Buf(<<Uint8(KINDS.push), Uint8(Len(join_ref.s)), Uint8(Len(ref_.s)),
                Uint8(Len(topic_.s)), Uint8(Len(event.s))>>
               \o CharCodes(join_ref.s) \o CharCodes(ref_.s)
               \o CharCodes(topic_.s) \o CharCodes(event.s)
               \o payload.s)

Serializer_encode(msg) ==
  IF msg.payload.t = "buf" THEN Serializer_binaryEncode(msg)
  ELSE Text(JSON_stringifyArray(<<msg.join_ref, msg.ref, msg.topic, msg.event,
                                  msg.payload>>))

\* view.getUint8(i), i counted from 0
GetUint8(buffer, i) == buffer[i + 1]

\* buffer.slice(from, to), counted from 0, clamped to the buffer
Slice(buffer, from, to) ==
  SubSeq(buffer, from + 1, IF to < Len(buffer) THEN to ELSE Len(buffer))

\* TextDecoder.decode: a byte below 128 is its character, any other byte is
\* taken as an invalid sequence and replaced
TextDecode(bytes) == [i \in 1..Len(bytes) |-> IF bytes[i] < 128 THEN bytes[i] ELSE 65533]

Serializer_decodePush(buffer) ==
  LET offset0 == HEADER_LENGTH + META_LENGTH - 1
      joinRefSize == GetUint8(buffer, 1)
      topicSize == GetUint8(buffer, 2)
      eventSize == GetUint8(buffer, 3)
      joinRef == TextDecode(Slice(buffer, offset0, offset0 + joinRefSize))
      offset1 == offset0 + joinRefSize
      topic_ == TextDecode(Slice(buffer, offset1, offset1 + topicSize))
      offset2 == offset1 + topicSize
      event == TextDecode(Slice(buffer, offset2, offset2 + eventSize))
      offset3 == offset2 + eventSize
      data == Slice(buffer, offset3, Len(buffer))
  IN Msg(JStr(joinRef), JNull, JStr(topic_), JStr(event), Buf(data))

Serializer_decodeReply(buffer) ==
  LET offset0 == HEADER_LENGTH + META_LENGTH
      joinRefSize == GetUint8(buffer, 1)
      refSize == GetUint8(buffer, 2)
      topicSize == GetUint8(buffer, 3)
      eventSize == GetUint8(buffer, 4)
      joinRef == TextDecode(Slice(buffer, offset0, offset0 + joinRefSize))
      offset1 == offset0 + joinRefSize
      ref_ == TextDecode(Slice(buffer, offset1, offset1 + refSize))
      offset2 == offset1 + refSize
      topic_ == TextDecode(Slice(buffer, offset2, offset2 + topicSize))
      offset3 == offset2 + topicSize
      event == TextDecode(Slice(buffer, offset3, offset3 + eventSize))
      offset4 == offset3 + eventSize
      data == Slice(buffer, offset4, Len(buffer))
      payload == JObj(<< <<<<115, 116, 97, 116, 117, 115>>, JStr(event)>>,
                         <<<<114, 101, 115, 112, 111, 110, 115, 101>>, Buf(data)>> >>)
  IN Msg(JStr(joinRef), JStr(ref_), JStr(topic_), JStr(CHANNEL_EVENTS_reply), payload)

Serializer_decodeBroadcast(buffer) ==
  LET topicSize == GetUint8(buffer, 1)
      eventSize == GetUint8(buffer, 2)
      offset0 == HEADER_LENGTH + 2
      topic_ == TextDecode(Slice(buffer, offset0, offset0 + topicSize))
      offset1 == offset0 + topicSize
      event == TextDecode(Slice(buffer, offset1, offset1 + eventSize))
      offset2 == offset1 + eventSize
      data == Slice(buffer, offset2, Len(buffer))
  IN Msg(JNull, JNull, JStr(topic_), JStr(event), Buf(data))

\* getUint8 beyond the buffer throws a RangeError: the kind is read at 0,
\* the sizes at 1..3 (push), 1..4 (reply) and 1..2 (broadcast); an unknown
\* kind leaves the switch and returns undefined
Serializer_binaryDecode(buffer) ==
  IF Len(buffer) < 1 THEN Thrown
  ELSE LET kind == GetUint8(buffer, 0)
       IN CASE kind = KINDS.push ->
                 IF Len(buffer) < 4 THEN Thrown ELSE Serializer_decodePush(buffer)
            [] kind = KINDS.reply ->
                 IF Len(buffer) < 5 THEN Thrown ELSE Serializer_decodeReply(buffer)
            [] kind = KINDS.broadcast ->
                 IF Len(buffer) < 3 THEN Thrown ELSE Serializer_decodeBroadcast(buffer)
            [] OTHER -> Undefined

\* the i-th element an array destructuring reads, undefined past the end
Elem(vs, i) == IF i <= Len(vs) THEN vs[i] ELSE Undefined

\* let [join_ref, ref, topic, event, payload] = JSON.parse(rawPayload): an
\* array gives its elements, a string its characters, and null and objects
\* are not iterable
Serializer_decode(rawPayload) ==
  IF rawPayload.t = "buf" THEN Serializer_binaryDecode(rawPayload.s)
  ELSE LET v == JSON_parse(rawPayload.s)
           a == IF v.t = "arr" THEN v.kv ELSE [i \in 1..Len(v.s) |-> JStr(<<v.s[i]>>)]
       IN IF v.t \in {"arr", "str"}
          THEN Msg(Elem(a, 1), Elem(a, 2), Elem(a, 3), Elem(a, 4), Elem(a, 5))
          ELSE Thrown


(***************************************************************************)
(* RealtimeClient: connection state, refs, push.                           *)
(***************************************************************************)
isConnected(s) == s.conn = "open"

\* faulty variant: _makeRef that does not advance the counter
makeRef_stuck(s) == s

\* x + 1 in JavaScript's numbers: exact below RefWrap, absorbed at it
FloatInc(x) == IF x >= RefWrap THEN x ELSE x + 1

\* faulty variant: _makeRef without the restart at overflow
makeRef_noRestart(s) == [s EXCEPT !.ref = FloatInc(@)]

makeRef(s) ==
  LET newRef == FloatInc(s.ref)
  IN [s EXCEPT !.ref = IF newRef = s.ref THEN 0 ELSE newRef]

connect(s) == IF s.conn # "null" THEN s ELSE [s EXCEPT !.conn = "connecting"]

\* conn.send of an encoded frame: the server now holds the request
connSend(s, f) ==
  [s EXCEPT !.sent = Append(@, f),
            !.wire = @ \cup {f},
            !.seen = IF f.event = "phx_join" THEN @ \cup {f} ELSE @]

push(s, f) ==
  LET s1 == [s EXCEPT !.pushed = Append(@, f)]
  IN IF isConnected(s1) THEN connSend(s1, f)
     ELSE [s1 EXCEPT !.sendBuffer = Append(@, f)]

RECURSIVE sendAll(_, _)
sendAll(s, fs) == IF fs = <<>> THEN s ELSE sendAll(connSend(s, Head(fs)), Tail(fs))

\* faulty variant: _flushSendBuffer that keeps the closures it has called
flushSendBuffer_keeps(s) ==
  IF isConnected(s) /\ Len(s.sendBuffer) > 0 THEN sendAll(s, s.sendBuffer) ELSE s

flushSendBuffer(s) ==
  IF isConnected(s) /\ Len(s.sendBuffer) > 0
  THEN [sendAll(s, s.sendBuffer) EXCEPT !.sendBuffer = <<>>]
  ELSE s

\* faulty variant: disconnect() that forgets reconnectTimer.reset()
disconnect_keepsTimer(s) ==
  IF s.conn # "null"
  THEN [s EXCEPT !.closeArgs = Append(@, <<Null, "">>),
                 !.conn = "null",
                 !.wire = {},
                 !.seen = {},
                 !.heartbeatTimer = FALSE]
  ELSE s

disconnect(s) ==
  IF s.conn # "null"
  THEN [s EXCEPT !.closeArgs = Append(@, <<Null, "">>),
                 !.conn = "null",
                 !.wire = {},
                 !.seen = {},
                 !.heartbeatTimer = FALSE,
                 !.reconnectTimer = Timer_reset(@)]
  ELSE s

joinRef(s, c) == s.chan[c].joinPush.ref

\* faulty variant: _remove that keeps every channel
remove_none(s, c) == s

remove(s, c) ==
  [s EXCEPT !.channels = SelectSeq(@, LAMBDA d: joinRef(s, d) # joinRef(s, c))]

(***************************************************************************)
(* lib/push: the join Push of channel c.  joinB is the set of refs whose   *)
(* chan_reply_<ref> binding calls this push; timers is the set of its live *)
(* setTimeout handles, joinPush.timeoutTimer the handle the push holds.    *)
(***************************************************************************)
\* an object without members, and {...a, ...b} of two objects
EmptyObject == [k \in {} |-> k]

spread(a, b) == b @@ a

\* {...f} of a function f: a function has no own enumerable property
spreadFunction(f) == EmptyObject

\* closure(value) of an object: () => value
closure(value) == [returns |-> value]

\* payload is closure(channel.params), params being { config }
Push_new ==
  [ref |-> Null, refEvent |-> Null, timeoutTimer |-> Null,
   receivedResp |-> "none", sent |-> FALSE,
   payload |-> closure([config |-> [presence |-> [enabled |-> FALSE]]])]

\* updatePayload(payload): this.payload, a closure, is spread
Push_updatePayload(s, c, payload) ==
  [s EXCEPT !.chan[c].joinPush.payload = closure(spread(spreadFunction(@), payload))]

Push_cancelRefEvent(s, c) ==
  IF s.chan[c].joinPush.refEvent = Null THEN s
  ELSE [s EXCEPT !.chan[c].joinB = @ \ {s.chan[c].joinPush.refEvent}]

Push_cancelTimeout(s, c) ==
  [s EXCEPT !.chan[c].timers = @ \ {s.chan[c].joinPush.timeoutTimer},
            !.chan[c].joinPush.timeoutTimer = Null]

\* faulty variant: reset() that forgets _cancelRefEvent()
Push_reset_keepsBinding(s, c) ==
  [s EXCEPT !.chan[c].joinPush.ref = Null,
            !.chan[c].joinPush.refEvent = Null,
            !.chan[c].joinPush.receivedResp = "none",
            !.chan[c].joinPush.sent = FALSE]

Push_reset(s, c) ==
  [Push_cancelRefEvent(s, c) EXCEPT
      !.chan[c].joinPush.ref = Null,
      !.chan[c].joinPush.refEvent = Null,
      !.chan[c].joinPush.receivedResp = "none",
      !.chan[c].joinPush.sent = FALSE]

Push_startTimeout(s, c) ==
  LET s1 == IF s.chan[c].joinPush.timeoutTimer # Null THEN Push_cancelTimeout(s, c) ELSE s
      s2 == makeRef(s1)
      r == s2.ref
  IN [s2 EXCEPT !.chan[c].joinPush.ref = r,
                !.chan[c].joinPush.refEvent = r,
                !.chan[c].joinB = @ \cup {r},
                !.chan[c].timers = @ \cup {r},
                !.chan[c].joinPush.timeoutTimer = r]

Push_hasReceived(s, c, status) == s.chan[c].joinPush.receivedResp = status

Push_send(s, c) ==
  IF Push_hasReceived(s, c, "timeout") THEN s
  ELSE LET s1 == Push_startTimeout(s, c)
           s2 == [s1 EXCEPT !.chan[c].joinPush.sent = TRUE]
       IN push(s2, [topic |-> topic[c], event |-> "phx_join", ref |-> joinRef(s2, c),
                    join_ref |-> joinRef(s2, c),
                    payload |-> s2.chan[c].joinPush.payload.returns])

Push_resend(s, c) == Push_send(Push_reset(s, c), c)

\* faulty variant: a destroy() that raises on a push it has destroyed
Push_destroy_once(s, c) ==
  IF s.chan[c].joinPush.timeoutTimer = Null
       /\ s.chan[c].joinPush.refEvent \notin s.chan[c].joinB
  THEN [s EXCEPT !.thrown = TRUE]
  ELSE Push_cancelTimeout(Push_cancelRefEvent(s, c), c)

Push_destroy(s, c) == Push_cancelTimeout(Push_cancelRefEvent(s, c), c)


(***************************************************************************)
(* RealtimePresence.  A presence state maps each present key to the list   *)
(* of its metas, a meta being its presence_ref; a diff holds two such      *)
(* maps, joins and leaves.  Keys are visited in the order of PresenceKeys. *)
(* A presence holds its state, the diffs pending, and the join ref of the  *)
(* channel when the last presence_state came.                              *)
(***************************************************************************)
PresenceKeys == <<"u1", "u2">>

Presence_new == [state |-> NoKeys, pendingDiffs |-> <<>>, joinRef |-> Null]

Refs(metas) == {metas[i] : i \in 1..Len(metas)}

Without(metas, refs) == SelectSeq(metas, LAMBDA m : m \notin refs)

MetasOf(state, key) == IF key \in DOMAIN state THEN state[key] ELSE <<>>

Put(state, key, metas) ==
  [k \in DOMAIN state \cup {key} |-> IF k = key THEN metas ELSE state[k]]

Delete(state, key) == [k \in DOMAIN state \ {key} |-> state[k]]

onJoin(p, key, current, newPres) ==
  [p EXCEPT !.cbs = Append(@, [kind |-> "join", key |-> key, current |-> current,
                               metas |-> newPres])]

onLeave(p, key, current, leftPres) ==
  [p EXCEPT !.cbs = Append(@, [kind |-> "leave", key |-> key, current |-> current,
                               metas |-> leftPres])]

onSync(p) ==
  [p EXCEPT !.cbs = Append(@, [kind |-> "sync", key |-> "", current |-> <<>>,
                               metas |-> <<>>])]

\* for each joins[key] the new metas are appended to state[key]
RECURSIVE syncDiffJoins(_, _, _)
syncDiffJoins(p, joins, keys) ==
  IF keys = <<>> THEN p
  ELSE LET key == Head(keys)
           current == MetasOf(p.state, key)
           p1 == [p EXCEPT !.state = Put(@, key, Without(current, Refs(joins[key]))
                                                   \o joins[key])]
       IN syncDiffJoins(IF key \in DOMAIN joins
                        THEN onJoin(p1, key, current, joins[key]) ELSE p,
                        joins, Tail(keys))

\* faulty variant: leaves that keep a key whose last meta has left
RECURSIVE syncDiffLeaves_keepsKey(_, _, _)
syncDiffLeaves_keepsKey(p, leaves, keys) ==
  IF keys = <<>> THEN p
  ELSE LET key == Head(keys)
           remaining == Without(MetasOf(p.state, key), Refs(leaves[key]))
           p1 == [p EXCEPT !.state = Put(@, key, remaining)]
       IN syncDiffLeaves_keepsKey(IF key \in DOMAIN leaves /\ key \in DOMAIN p.state
                                  THEN onLeave(p1, key, remaining, leaves[key]) ELSE p,
                                  leaves, Tail(keys))

\* for each leaves[key] the metas are removed by presence_ref, and the key
\* is removed when its list becomes empty
RECURSIVE syncDiffLeaves(_, _, _)
syncDiffLeaves(p, leaves, keys) ==
  IF keys = <<>> THEN p
  ELSE LET key == Head(keys)
           remaining == Without(MetasOf(p.state, key), Refs(leaves[key]))
           p1 == [p EXCEPT !.state = IF remaining = <<>> THEN Delete(@, key)
                                     ELSE Put(@, key, remaining)]
       IN syncDiffLeaves(IF key \in DOMAIN leaves /\ key \in DOMAIN p.state
                         THEN onLeave(p1, key, remaining, leaves[key]) ELSE p,
                         leaves, Tail(keys))

syncDiff(p, diff) ==
  syncDiffLeaves(syncDiffJoins(p, diff.joins, PresenceKeys), diff.leaves, PresenceKeys)

\* the join set of a sync: the keys and metas of newState that state lacks
JoinsOf(state, newState) ==
  LET joined(key) == Without(newState[key], Refs(MetasOf(state, key)))
  IN [key \in {k \in DOMAIN newState : joined(k) # <<>>} |-> joined(key)]

\* on_join and on_leave are fired for the join set and the leave set, then
\* state = newState
syncState(p, newState) ==
  LET joins == JoinsOf(p.state, newState)
      leaves == JoinsOf(newState, p.state)
      p1 == syncDiff(p, [joins |-> joins, leaves |-> leaves])
  IN [p1 EXCEPT !.state = newState]

RECURSIVE syncDiffs(_, _)
syncDiffs(p, diffs) ==
  IF diffs = <<>> THEN p ELSE syncDiffs(syncDiff(p, Head(diffs)), Tail(diffs))

inPendingSyncState(s, c) ==
  s.chan[c].presence.joinRef = Null \/ s.chan[c].presence.joinRef # joinRef(s, c)

\* faulty variant: a presence_state handler that forgets the pending diffs
presenceState_dropsPending(s, c) ==
  LET p == onSync(syncState([state |-> s.chan[c].presence.state, cbs |-> s.pcbs],
                            s.payload.state))
  IN [s EXCEPT !.chan[c].presence = [state |-> p.state, pendingDiffs |-> <<>>,
                                     joinRef |-> joinRef(s, c)],
               !.pcbs = p.cbs]

\* the binding of presence_state: the state is synced, the pending diffs
\* are replayed in arrival order, the queue is cleared, on_sync fires
presenceState(s, c) ==
  LET p0 == [state |-> s.chan[c].presence.state, cbs |-> s.pcbs]
      p == onSync(syncDiffs(syncState(p0, s.payload.state),
                            s.chan[c].presence.pendingDiffs))
  IN [s EXCEPT !.chan[c].presence = [state |-> p.state, pendingDiffs |-> <<>>,
                                     joinRef |-> joinRef(s, c)],
               !.pcbs = p.cbs]

\* the binding of presence_diff: the diff is queued until a presence_state
\* has come for the current join
presenceDiff(s, c) ==
  LET diff == [joins |-> s.payload.joins, leaves |-> s.payload.leaves]
      p == onSync(syncDiff([state |-> s.chan[c].presence.state, cbs |-> s.pcbs], diff))
  IN IF inPendingSyncState(s, c)
     THEN [s EXCEPT !.chan[c].presence.pendingDiffs = Append(@, diff)]
     ELSE [s EXCEPT !.chan[c].presence.state = p.state, !.pcbs = p.cbs]

(***************************************************************************)
(* RealtimeChannel.  A channel record holds:                               *)
(*   state, joinedOnce, joinPush, rejoinTimer  the fields of the class     *)
(*   joinB, timers   the join push's chan_reply bindings and live timeouts *)
(*   pushes          refs of the other pushes awaiting a reply (their      *)
(*                   chan_reply binding and timeout are live)              *)
(*   pushBuffer      the pushes buffered until the channel joins, each its *)
(*                   ref and event                                         *)
(*   leaves          refs of leave pushes awaiting the server's reply      *)
(*   subs            subscribe() calls that registered their callback: each *)
(*                   added a phx_error and a phx_close binding and an ok,  *)
(*                   an error and a timeout hook on the join push          *)
(*   binds           the phx_error and phx_close bindings of those calls   *)
(*                   that bindings still holds                             *)
(*   bound           bindings still holds the constructor's phx_close,     *)
(*                   phx_error and phx_reply bindings                      *)
(*   quiet           subscribe() calls without a callback that registered  *)
(*                   their bindings and hooks                              *)
(*   postgres_changes  bindings.postgres_changes: each binding its filter  *)
(*                   and the id the server gave it (Null before)           *)
(*   presenceBindings  the number of bindings in bindings.presence         *)
(*   config          the config of the join payload, as far as presence    *)
(*                   goes                                                  *)
(*   presence        the RealtimePresence of the channel                   *)
(***************************************************************************)
Channel_new ==
  [state |-> "closed", joinedOnce |-> FALSE, joinPush |-> Push_new,
   rejoinTimer |-> Timer_new, joinB |-> {}, timers |-> {}, pushes |-> {},
   pushBuffer |-> <<>>, leaves |-> {}, subs |-> 0, binds |-> 0, bound |-> TRUE,
   quiet |-> 0, postgres_changes |-> <<>>, presenceBindings |-> 0,
   config |-> [presence |-> [enabled |-> FALSE]],
   presence |-> Presence_new]

isClosed(s, c) == s.chan[c].state = "closed"
isJoined(s, c) == s.chan[c].state = "joined"
isJoining(s, c) == s.chan[c].state = "joining"
isLeaving(s, c) == s.chan[c].state = "leaving"

canPush(s, c) == isConnected(s) /\ isJoined(s, c)

callback(s, c, status) == [s EXCEPT !.cbs = Append(@, <<c, status>>)]

\* callback?.(status): has tells whether subscribe() was given a callback
callbackIf(s, c, status, has) == IF has THEN callback(s, c, status) ELSE s

\* the callbacks of the phx_error or phx_close bindings of the subscribe()
\* calls, in registration order
callbacks(s, c, status) == [s EXCEPT !.cbs = @ \o Rep(s.chan[c].binds, <<c, status>>)]

\* faulty variant: _handleChannelError without the leaving/closed guard
handleChannelError_unguarded(s, c) ==
  [s EXCEPT !.chan[c].state = "errored",
            !.chan[c].rejoinTimer = Timer_scheduleTimeout(@)]

\* errors are ignored while the channel is leaving or closed
handleChannelError(s, c) ==
  IF isLeaving(s, c) \/ isClosed(s, c) THEN s
  ELSE [s EXCEPT !.chan[c].state = "errored",
                 !.chan[c].rejoinTimer = Timer_scheduleTimeout(@)]

\* faulty variant: _addToPushBuffer that never evicts
addToPushBuffer_noEvict(s, c, b) == [s EXCEPT !.chan[c].pushBuffer = Append(@, b)]

\* the evicted push is destroyed: its reply binding and its timeout go
addToPushBuffer(s, c, b) ==
  LET s1 == IF Len(s.chan[c].pushBuffer) >= MAX_PUSH_BUFFER_SIZE
            THEN LET oldestPush == Head(s.chan[c].pushBuffer)
                 IN [s EXCEPT !.chan[c].pushBuffer = Tail(@),
                              !.chan[c].pushes = @ \ {oldestPush.ref}]
            ELSE s
  IN [s1 EXCEPT !.chan[c].pushBuffer = Append(@, b)]

\* RealtimeChannel._push: it throws before the first subscribe(); a push that
\* cannot be sent starts its timeout (drawing its ref) and is buffered
channelPush(s, c, event) ==
  LET s1 == makeRef(s)
      r == s1.ref
      s2 == [s1 EXCEPT !.chan[c].pushes = @ \cup {r}]
  IN IF ~s.chan[c].joinedOnce THEN s
     ELSE IF canPush(s, c)
          THEN push(s2, Frame(topic[c], event, r, joinRef(s2, c)))
          ELSE addToPushBuffer(s2, c, [ref |-> r, event |-> event])

RECURSIVE setAuthEach(_, _)
setAuthEach(s, cs) ==
  IF cs = <<>> THEN s
  ELSE LET c == Head(cs)
           s0 == IF s.accessToken # NoToken
                 THEN Push_updatePayload(s, c, [access_token |-> s.accessToken]) ELSE s
           s1 == IF s0.chan[c].joinedOnce /\ isJoined(s0, c)
                 THEN channelPush(s0, c, "access_token") ELSE s0
       IN setAuthEach(s1, Tail(cs))

\* RealtimeClient.setAuth(token): the token is stored as given (NoToken when
\* the call passes none), then every channel of the client takes a token
\* that is given into its join payload, and every joined channel pushes it
setAuth(s, token) == setAuthEach([s EXCEPT !.accessToken = token], s.channels)

\* faulty variant: a send() that ignores the timeout the push has received
RECURSIVE sendBuffered_ignoresTimeout(_, _, _)
sendBuffered_ignoresTimeout(s, c, bs) ==
  IF bs = <<>> THEN s
  ELSE LET b == Head(bs)
           s1 == makeRef(s)
           r == s1.ref
           s2 == [s1 EXCEPT !.chan[c].pushes = (@ \ {b.ref}) \cup {r}]
       IN sendBuffered_ignoresTimeout(
            push(s2, Frame(topic[c], b.event, r, joinRef(s2, c))), c, Tail(bs))

\* Push.send of a buffered push b: a push whose timeout fired is not sent
RECURSIVE sendBuffered(_, _, _)
sendBuffered(s, c, bs) ==
  IF bs = <<>> THEN s
  ELSE LET b == Head(bs)
           s1 == makeRef(s)
           r == s1.ref
           s2 == [s1 EXCEPT !.chan[c].pushes = (@ \ {b.ref}) \cup {r}]
       IN IF b.ref \notin s.chan[c].pushes THEN sendBuffered(s, c, Tail(bs))
          ELSE sendBuffered(push(s2, Frame(topic[c], b.event, r, joinRef(s2, c))),
                            c, Tail(bs))

\* faulty variant: an ok hook that forgets to set the state
joinOk_keepsState(s, c) ==
  LET s1 == [s EXCEPT !.chan[c].rejoinTimer = Timer_reset(@)]
  IN [sendBuffered(s1, c, s1.chan[c].pushBuffer) EXCEPT !.chan[c].pushBuffer = <<>>]

\* the hooks the constructor puts on the join push
joinOk(s, c) ==
  LET s1 == [s EXCEPT !.chan[c].state = "joined",
                      !.chan[c].rejoinTimer = Timer_reset(@)]
  IN [sendBuffered(s1, c, s1.chan[c].pushBuffer) EXCEPT !.chan[c].pushBuffer = <<>>]

joinTimeout(s, c) == IF ~isJoining(s, c) THEN s ELSE handleChannelError(s, c)

joinError(s, c) == handleChannelError(s, c)

isMatchingPostgresBinding(clientBinding, serverChanges, index) ==
  /\ index <= Len(serverChanges)
  /\ serverChanges[index].event = clientBinding.filter.event
  /\ serverChanges[index].schema = clientBinding.filter.schema
  /\ serverChanges[index].table = clientBinding.filter.table
  /\ serverChanges[index].filter = clientBinding.filter.filter

\* _validatePostgresChanges: Thrown at a mismatch, else the bindings with
\* the server's ids
validatePostgresChanges(s, c, serverChanges) ==
  LET clientBindings == s.chan[c].postgres_changes
  IN IF \E i \in 1..Len(clientBindings) :
          ~isMatchingPostgresBinding(clientBindings[i], serverChanges, i)
     THEN Thrown
     ELSE JArr([i \in 1..Len(clientBindings) |->
                 [clientBindings[i] EXCEPT !.id = serverChanges[i].id]])

\* unsubscribe(), defined below with the other user calls
RECURSIVE unsubscribe(_, _)

\* this.unsubscribe(); this.state = errored; callback?.(CHANNEL_ERROR, error)
handleSubscriptionError(s, c, has) ==
  callbackIf([unsubscribe(s, c) EXCEPT !.chan[c].state = "errored"], c,
             "CHANNEL_ERROR", has)

\* the hooks one subscribe(callback) call puts on the join push
subscribeOk(s, c, has) ==
  LET s1 == setAuth(s, NoToken)
      validatedBindings == validatePostgresChanges(s1, c, s1.response.list)
  IN CASE ~s1.response.defined -> callbackIf(s1, c, "SUBSCRIBED", has)
       [] s1.response.defined /\ validatedBindings = Thrown ->
            handleSubscriptionError(s1, c, has)
       [] OTHER -> callbackIf([s1 EXCEPT !.chan[c].postgres_changes = validatedBindings.kv],
                              c, "SUBSCRIBED", has)

subscribeError(s, c, has) ==
  callbackIf([s EXCEPT !.chan[c].state = "errored"], c, "CHANNEL_ERROR", has)

subscribeTimeout(s, c, has) == callbackIf(s, c, "TIMED_OUT", has)

\* the hooks of n subscribe() calls
RECURSIVE subscribeHooks(_, _, _, _, _)
subscribeHooks(s, c, status, n, has) ==
  IF n = 0 THEN s
  ELSE LET s1 == CASE status = "ok" -> subscribeOk(s, c, has)
                   [] status = "error" -> subscribeError(s, c, has)
                   [] status = "timeout" -> subscribeTimeout(s, c, has)
                   [] OTHER -> s
       IN subscribeHooks(s1, c, status, n - 1, has)

\* the hooks of the status, those of the constructor first; the hooks of
\* the subscribe() calls without a callback differ from the others in the
\* callback only, and are run after them
Push_matchReceive(s, c, status) ==
  LET s1 == CASE status = "ok" -> joinOk(s, c)
              [] status = "timeout" -> joinTimeout(s, c)
              [] status = "error" -> joinError(s, c)
              [] OTHER -> s
      s2 == subscribeHooks(s1, c, status, s.chan[c].subs, TRUE)
  IN subscribeHooks(s2, c, status, s.chan[c].quiet, FALSE)

\* faulty variant: a reply binding that forgets _cancelTimeout()
Push_onReply_keepsTimeout(s, c, status) ==
  LET s1 == Push_cancelRefEvent(s, c)
      s2 == [s1 EXCEPT !.chan[c].joinPush.receivedResp = status]
  IN Push_matchReceive(s2, c, status)

\* the chan_reply binding startTimeout registers for the join push
Push_onReply(s, c, status) ==
  LET s1 == Push_cancelTimeout(Push_cancelRefEvent(s, c), c)
      s2 == [s1 EXCEPT !.chan[c].joinPush.receivedResp = status]
  IN Push_matchReceive(s2, c, status)

\* the phx_close bindings: the constructor's, then one per subscribe()
onClose(s, c) ==
  LET s1 == [s EXCEPT !.chan[c].rejoinTimer = Timer_reset(@),
                      !.chan[c].state = "closed"]
  IN callbacks(IF s.chan[c].bound THEN remove(s1, c) ELSE s, c, "CLOSED")

\* the phx_error bindings: the constructor's, then one per subscribe()
onError(s, c) ==
  callbacks(IF s.chan[c].bound THEN handleChannelError(s, c) ELSE s, c, "CHANNEL_ERROR")

\* the resolve() of the hooks unsubscribe() puts on its leave push; the
\* promise's finally callback is queued as a microtask
leaveResolve(s, c, status) ==
  LET result == CASE status = "ok" -> "ok"
                  [] status = "timeout" -> "timed out"
                  [] status = "error" -> "error"
                  [] OTHER -> "none"
  IN IF result = "none" THEN s
     ELSE [s EXCEPT !.resolved = Append(@, <<c, result>>),
                    !.micro = Append(@, [c |-> c, next |-> ""])]

\* faulty variant: _trigger without the join-ref check on lifecycle events
RECURSIVE trigger_anyRef(_, _, _, _, _)
trigger_anyRef(s, c, type, r, status) ==
  CASE type = "phx_error" -> onError(s, c)
    [] type = "phx_close" -> onClose(s, c)
    [] type = "phx_reply" ->
         IF s.chan[c].bound THEN trigger_anyRef(s, c, "chan_reply", r, status) ELSE s
    [] type = "presence_state" -> IF s.chan[c].bound THEN presenceState(s, c) ELSE s
    [] type = "presence_diff" -> IF s.chan[c].bound THEN presenceDiff(s, c) ELSE s
    [] type = "chan_reply" ->
         IF r \in s.chan[c].joinB THEN Push_onReply(s, c, status)
         ELSE IF r \in s.chan[c].leaves
              THEN LET s1 == [s EXCEPT !.chan[c].leaves = @ \ {r}]
                       s2 == IF status \in {"ok", "timeout", "error"}
                             THEN trigger_anyRef(s1, c, "phx_close", joinRef(s1, c), "leave")
                             ELSE s1
                   IN leaveResolve(s2, c, status)
              ELSE IF r \in s.chan[c].pushes
                   THEN [s EXCEPT !.chan[c].pushes = @ \ {r}]
                   ELSE s
    [] OTHER -> s

RECURSIVE trigger(_, _, _, _, _)
trigger(s, c, type, r, status) ==
  IF r # Null /\ type \in ChannelEvents /\ r # joinRef(s, c) THEN s
  ELSE CASE type = "phx_error" -> onError(s, c)
         [] type = "phx_close" -> onClose(s, c)
         [] type = "phx_reply" ->
              IF s.chan[c].bound THEN trigger(s, c, "chan_reply", r, status) ELSE s
         [] type = "presence_state" -> IF s.chan[c].bound THEN presenceState(s, c) ELSE s
         [] type = "presence_diff" -> IF s.chan[c].bound THEN presenceDiff(s, c) ELSE s
         [] type = "chan_reply" ->
              IF r \in s.chan[c].joinB THEN Push_onReply(s, c, status)
              ELSE IF r \in s.chan[c].leaves
                   THEN LET s1 == [s EXCEPT !.chan[c].leaves = @ \ {r}]
                            s2 == IF status \in {"ok", "timeout", "error"}
                                  THEN trigger(s1, c, "phx_close", joinRef(s1, c), "leave")
                                  ELSE s1
                        IN leaveResolve(s2, c, status)
                   ELSE IF r \in s.chan[c].pushes
                        THEN [s EXCEPT !.chan[c].pushes = @ \ {r}]
                        ELSE s
         [] OTHER -> s

\* Push.trigger of the join push
Push_trigger(s, c, status) ==
  trigger(s, c, "chan_reply", s.chan[c].joinPush.refEvent, status)

\* unsubscribe() up to the return of its promise.  The leave push is sent
\* (its reply binding and timeout are live from startTimeout on), and is
\* triggered with ok at once when the channel cannot push.
unsubscribe(s, c) ==
  LET s1 == [s EXCEPT !.chan[c].state = "leaving"]
      s2 == Push_destroy(s1, c)
      s3 == makeRef(s2)
      r == s3.ref
      s4 == [s3 EXCEPT !.chan[c].leaves = @ \cup {r}]
      s5 == push(s4, Frame(topic[c], "phx_leave", r, joinRef(s4, c)))
  IN IF ~canPush(s5, c) THEN trigger(s5, c, "chan_reply", r, "ok") ELSE s5

\* faulty variant: a finally callback that also clears joinedOnce
unsubscribeFinally_forgets(s, c) ==
  [s EXCEPT !.chan[c].state = "closed", !.chan[c].joinedOnce = FALSE]

\* the finally callback of unsubscribe(): the leave push it destroys has
\* lost its binding and its timeout when the promise resolved
unsubscribeFinally(s, c) == [s EXCEPT !.chan[c].state = "closed"]

\* the microtasks, in the order queued: the finally callback of each
\* unsubscribe() promise
RECURSIVE runMicrotasks(_)
runMicrotasks(s) ==
  IF s.micro = <<>> THEN s
  ELSE runMicrotasks(unsubscribeFinally([s EXCEPT !.micro = Tail(@)], Head(s.micro).c))

leaveOpenTopic(s, t) ==
  LET dups == SelectSeq(s.channels,
                LAMBDA d: topic[d] = t /\ (isJoined(s, d) \/ isJoining(s, d)))
  IN IF dups # <<>> THEN unsubscribe(s, Head(dups)) ELSE s

rejoin(s, c) ==
  IF isLeaving(s, c) THEN s
  ELSE LET s1 == leaveOpenTopic(s, topic[c])
           s2 == [s1 EXCEPT !.chan[c].state = "joining"]
       IN Push_resend(s2, c)

\* faulty variant: a rejoin loop that does not look at the socket
rejoinUntilConnected_anySocket(s, c) ==
  rejoin([s EXCEPT !.chan[c].rejoinTimer = Timer_scheduleTimeout(@)], c)

rejoinUntilConnected(s, c) ==
  LET s1 == [s EXCEPT !.chan[c].rejoinTimer = Timer_scheduleTimeout(@)]
  IN IF isConnected(s1) THEN rejoin(s1, c) ELSE s1

shouldEnablePresence(s, c) == s.chan[c].presenceBindings > 0

\* subscribe(): updateJoinPayload({ ...{ config }, ...accessTokenPayload }).
\* accessTokenPayload has no member: it gets one when socket.accessTokenValue
\* is truthy, and RealtimeClient has accessToken and no accessTokenValue
joinPayload(s, c) == Push_updatePayload(s, c, [config |-> s.chan[c].config])

\* subscribe(callback), has telling whether a callback is given
subscribeCall(s, c, has) ==
  LET s1 == IF ~isConnected(s) THEN connect(s) ELSE s
  IN IF s1.chan[c].state = "closed"
     THEN rejoin(joinPayload(
                   [s1 EXCEPT !.chan[c].config.presence.enabled = shouldEnablePresence(s1, c),
                              !.chan[c].subs = IF has THEN @ + 1 ELSE @,
                              !.chan[c].binds = IF has THEN @ + 1 ELSE @,
                              !.chan[c].quiet = IF has THEN @ ELSE @ + 1,
                              !.chan[c].joinedOnce = TRUE], c), c)
     ELSE s1

\* faulty variant: subscribe() without the closed-state guard
subscribe_unguarded(s, c) ==
  LET s1 == IF ~isConnected(s) THEN connect(s) ELSE s
  IN rejoin([s1 EXCEPT !.chan[c].subs = @ + 1,
                       !.chan[c].binds = @ + 1,
                       !.chan[c].joinedOnce = TRUE], c)

subscribe(s, c) == subscribeCall(s, c, TRUE)

\* _on(type, filter, callback): the binding is appended to bindings[type]
Channel_on(s, c, type, filter) ==
  CASE type = "postgres_changes" ->
         [s EXCEPT !.chan[c].postgres_changes = Append(@, [filter |-> filter, id |-> Null])]
    [] type = "presence" -> [s EXCEPT !.chan[c].presenceBindings = @ + 1]
    [] OTHER -> s

\* promise.then(() => this.subscribe()) on the promise unsubscribe() has
\* returned: unsubscribe() has resolved it and queued its finally callback
\* as the last microtask, and the then callback runs right after that one
thenSubscribe(s) ==
  [s EXCEPT !.micro[Len(s.micro)].next = "subscribe"]

\* teardown(): each buffered push is destroyed (its reply binding and its
\* timeout go), then the join push; bindings = {} drops every binding of the
\* channel, the reply bindings of the pushes in flight among them
teardown(s, c) ==
  LET buffered == {s.chan[c].pushBuffer[i].ref : i \in 1..Len(s.chan[c].pushBuffer)}
      s1 == [s EXCEPT !.chan[c].pushes = @ \ buffered]
      s2 == [s1 EXCEPT !.chan[c].pushBuffer = <<>>]
      s3 == Push_destroy(s2, c)
      s4 == [s3 EXCEPT !.chan[c].rejoinTimer = Timer_reset(@)]
  IN [s4 EXCEPT !.chan[c].joinB = {},
                !.chan[c].pushes = {},
                !.chan[c].leaves = {},
                !.chan[c].binds = 0,
                !.chan[c].bound = FALSE,
                !.chan[c].postgres_changes = <<>>,
                !.chan[c].presenceBindings = 0,
                !.chan[c].state = "closed"]

\* on(type, filter, callback)
on(s, c, type, filter) ==
  LET s1 == IF isJoined(s, c) /\ type = "presence"
            THEN thenSubscribe(unsubscribe(s, c)) ELSE s
  IN Channel_on(s1, c, type, filter)

\* the microtasks of on(), in the order queued: the finally callback of an
\* unsubscribe() promise, followed by the then callback on() chained to it
RECURSIVE runChained(_)
runChained(s) ==
  IF s.micro = <<>> THEN s
  ELSE LET job == Head(s.micro)
           s1 == unsubscribeFinally([s EXCEPT !.micro = Tail(@)], job.c)
       IN runChained(IF job.next = "subscribe" THEN subscribeCall(s1, job.c, FALSE)
                     ELSE s1)


(***************************************************************************)
(* RealtimeClient: the transport's callbacks and the timers' callbacks.    *)
(***************************************************************************)
RECURSIVE triggerEach(_, _, _, _, _)
triggerEach(s, cs, type, r, status) ==
  IF cs = <<>> THEN s
  ELSE triggerEach(trigger(s, Head(cs), type, r, status), Tail(cs), type, r, status)

triggerChanError(s) == triggerEach(s, s.channels, "phx_error", Null, "")

\* m is the decoded message: [topic, event, ref, status, changes], where
\* changes is payload.response.postgres_changes
onConnMessage(s, m) ==
  LET s1 == IF m.ref # Null /\ m.ref = s.pendingHeartbeatRef
            THEN [s EXCEPT !.pendingHeartbeatRef = Null] ELSE s
      members == SelectSeq(s1.channels, LAMBDA c: topic[c] = m.topic)
  IN triggerEach([s1 EXCEPT !.response = m.changes], members, m.event, m.ref, m.status)

\* the characters of the names that frames carry
Chars(name) ==
  CASE name = "realtime:a" -> <<114, 101, 97, 108, 116, 105, 109, 101, 58, 97>>
    [] name = "phoenix" -> <<112, 104, 111, 101, 110, 105, 120>>
    [] name = "phx_reply" -> CHANNEL_EVENTS_reply
    [] name = "phx_close" -> <<112, 104, 120, 95, 99, 108, 111, 115, 101>>
    [] name = "phx_error" -> <<112, 104, 120, 95, 101, 114, 114, 111, 114>>
    [] name = "ok" -> <<111, 107>>
    [] name = "error" -> <<101, 114, 114, 111, 114>>
    [] name = "status" -> <<115, 116, 97, 116, 117, 115>>
    [] name = "response" -> <<114, 101, 115, 112, 111, 110, 115, 101>>
    [] name = "type" -> <<116, 121, 112, 101>>
    [] OTHER -> <<>>

\* the name a string value spells among the given names, "" when none
NameOf(v, names) ==
  IF v.t = "str" /\ \E n \in names : Chars(n) = v.s
  THEN CHOOSE n \in names : Chars(n) = v.s
  ELSE ""

\* Number.prototype.toString of a ref
RECURSIVE Digits(_)
Digits(n) == IF n < 10 THEN <<48 + n>> ELSE Append(Digits(n \div 10), 48 + (n % 10))

\* the number a string of decimal digits denotes
RECURSIVE Atoi(_)
Atoi(cs) == IF cs = <<>> THEN 0 ELSE Atoi(SubSeq(cs, 1, Len(cs) - 1)) * 10 + (cs[Len(cs)] - 48)

\* a ref that is neither null nor the string of any ref of the client
BadRef == -2

\* the ref a frame carries, as the client's comparisons see it: null,
\* undefined and "" are falsy, the string of a number is that ref's string,
\* anything else equals no ref
RefOf(v) ==
  CASE v.t \in {"null", "undefined"} \/ v = JStr(<<>>) -> Null
    [] v.t = "str" /\ v.s # <<>> /\ (\A i \in 1..Len(v.s) : v.s[i] \in 48..57)
         /\ Len(v.s) <= 4 /\ Digits(Atoi(v.s)) = v.s -> Atoi(v.s)
    [] OTHER -> BadRef

\* payload.<key>, undefined when the payload is no object or has no such member
Member(payload, key) ==
  IF payload.t = "obj" /\ \E i \in 1..Len(payload.kv) : payload.kv[i][1] = Chars(key)
  THEN payload.kv[CHOOSE i \in 1..Len(payload.kv) : payload.kv[i][1] = Chars(key)][2]
  ELSE Undefined

\* the callback _onConnMessage hands to decode.  Destructuring an undefined
\* message throws, as do payload.status on a null or undefined payload and,
\* in _trigger, type.toLocaleLowerCase() on an event that is no string;
\* nothing catches them.
onDecoded(s, msg) ==
  LET heartbeat == RefOf(msg.ref) # Null /\ RefOf(msg.ref) = s.pendingHeartbeatRef
      s1 == IF heartbeat \/ msg.event = Member(msg.payload, "type")
            THEN [s EXCEPT !.pendingHeartbeatRef = Null] ELSE s
      m == [topic |-> NameOf(msg.topic, {"realtime:a", "phoenix"}),
            event |-> NameOf(msg.event, {"phx_reply", "phx_close", "phx_error"}),
            ref |-> RefOf(msg.ref),
            status |-> NameOf(Member(msg.payload, "status"), {"ok", "error"})]
      members == SelectSeq(s1.channels, LAMBDA c: topic[c] = m.topic)
  IN CASE msg \in {Thrown, Undefined} -> [s EXCEPT !.thrown = TRUE]
       [] msg \notin {Thrown, Undefined} /\ msg.payload.t \in {"null", "undefined"} ->
            [s1 EXCEPT !.thrown = TRUE]
       [] msg \notin {Thrown, Undefined} /\ msg.payload.t \notin {"null", "undefined"}
            /\ members # <<>> /\ msg.event.t # "str" ->
            [s1 EXCEPT !.thrown = TRUE]
       [] OTHER -> triggerEach(s1, members, m.event, m.ref, m.status)

\* _onConnMessage(rawMessage): decode, then the callback
onConnMessageData(s, data) == onDecoded(s, Serializer_decode(data))

onConnOpen(s) ==
  LET s1 == flushSendBuffer(s)
  IN [s1 EXCEPT !.reconnectTimer = Timer_reset(@), !.heartbeatTimer = TRUE]

onConnClose(s) ==
  LET s1 == triggerChanError(s)
  IN [s1 EXCEPT !.heartbeatTimer = FALSE,
                !.reconnectTimer = Timer_scheduleTimeout(@)]

onConnError(s) == triggerChanError(s)

sendHeartbeat(s) ==
  IF ~isConnected(s) THEN s
  ELSE IF s.pendingHeartbeatRef # Null
       THEN [s EXCEPT !.pendingHeartbeatRef = Null,
                      !.closeArgs = Append(@, <<WS_CLOSE_NORMAL, "hearbeat timeout">>),
                      !.conn = "closing"]
       ELSE LET s1 == makeRef(s)
                s2 == [s1 EXCEPT !.pendingHeartbeatRef = s1.ref]
                s3 == push(s2, Frame("phoenix", "heartbeat", s1.ref, Null))
            IN setAuth(s3, s3.accessToken)

\* the callback of the reconnect timer
reconnect(s) == connect(disconnect(s))

(***************************************************************************)
(* Actions: one per macrotask.                                             *)
(***************************************************************************)
\* the counter is within MaxRef of its start, or on its way to the restart
RefWithin(r) == r <= MaxRef \/ r >= RefStart

Within(s) ==
  /\ RefWithin(s.ref)
  /\ s.reconnectTimer.tries <= MaxTries
  /\ \A c \in Chans : s.chan[c].rejoinTimer.tries <= MaxTries /\ s.chan[c].subs <= MaxSubs

\* the state a task leaves once its microtasks have run
CommitAny(s0, o) ==
  LET s == runMicrotasks(s0)
  IN /\ conn' = s.conn
     /\ channels' = s.channels
     /\ sendBuffer' = s.sendBuffer
     /\ wire' = s.wire
     /\ seen' = s.seen
     /\ ref' = s.ref
     /\ pendingHeartbeatRef' = s.pendingHeartbeatRef
     /\ heartbeatTimer' = s.heartbeatTimer
     /\ reconnectTimer' = s.reconnectTimer
     /\ chan' = s.chan
     /\ pushed' = s.pushed
     /\ sent' = s.sent
     /\ cbs' = s.cbs
     /\ resolved' = s.resolved
     /\ closeArgs' = s.closeArgs
     /\ thrown' = s.thrown
     /\ accessToken' = s.accessToken
     /\ pcbs' = s.pcbs
     /\ response' = s.response
     /\ op' = o
     /\ UNCHANGED <<topic, frame, raw, back, backoff>>

\* a task of the bounded model: it neither starts nor ends beyond the bounds
Commit(s0, o) == RefWithin(ref) /\ Within(runMicrotasks(s0)) /\ CommitAny(s0, o)

Op(name, c, r, status) == [name |-> name, c |-> c, ref |-> r, status |-> status]

\* the state after construction and the channel() calls that made the
\* channels chs, but for the ref counter and the access token
ConstructedWith(chs) ==
  /\ topic = [c \in Chans |-> "realtime:a"]
  /\ conn = "null"
  /\ channels = chs
  /\ sendBuffer = <<>>
  /\ wire = {}
  /\ seen = {}
  /\ pendingHeartbeatRef = Null
  /\ heartbeatTimer = FALSE
  /\ reconnectTimer = Timer_new
  /\ chan = [c \in Chans |-> Channel_new]
  /\ pushed = <<>>
  /\ sent = <<>>
  /\ cbs = <<>>
  /\ resolved = <<>>
  /\ closeArgs = <<>>
  /\ thrown = FALSE
  /\ pcbs = <<>>
  /\ response = NoChanges
  /\ op = Op("init", 0, Null, "")

Constructed == ConstructedWith(<<1, 2>>)

\* the serializer has been given nothing
CodecIdle ==
  frame = Undefined /\ raw = Undefined /\ back = Undefined /\ backoff = Backoff_new

Init == Constructed /\ ref = 0 /\ accessToken = NoToken /\ CodecIdle

\* user calls
Subscribe(c) == Commit(subscribe(Cur, c), Op("subscribe", c, Null, ""))

Unsubscribe(c) == Commit(unsubscribe(Cur, c), Op("unsubscribe", c, Null, ""))

Connect == Commit(connect(Cur), Op("connect", 0, Null, ""))

\* channel.track(): send() of a presence message, which goes through _push
Track(c) ==
  /\ chan[c].joinedOnce
  /\ ref < MaxPushRef
  /\ CommitAny(channelPush(Cur, c, "presence"), Op("track", c, Null, ""))

Disconnect == Commit(disconnect(Cur), Op("disconnect", 0, Null, ""))

\* transport events
ConnOpen ==
  /\ conn = "connecting"
  /\ Commit(onConnOpen([Cur EXCEPT !.conn = "open"]), Op("onopen", 0, Null, ""))

ConnClose ==
  /\ conn \in {"connecting", "open", "closing"}
  /\ Commit(onConnClose([Cur EXCEPT !.conn = "closed", !.wire = {}, !.seen = {}]),
            Op("onclose", 0, Null, ""))

ConnError ==
  /\ conn \in {"connecting", "open"}
  /\ Commit(onConnError(Cur), Op("onerror", 0, Null, ""))

\* The requests the server answers: joins and heartbeats.  A reply to an
\* access_token push would only end that push, as PushTimeout does, and the
\* reply to a phx_leave finds no binding: unsubscribe() has triggered the leave
\* push itself before any reply can arrive.
Answerable == {f \in wire : f.event \in {"phx_join", "heartbeat"}}

\* the status of a reply matters for a join only
ReplyStatuses(f) == IF f.event = "phx_join" THEN {"ok", "error"} ELSE {"ok"}

\* the server answers a request it holds
ServerReply(f, status) ==
  /\ conn = "open"
  /\ f \in wire
  /\ Commit(onConnMessage([Cur EXCEPT !.wire = @ \ {f}],
                          [topic |-> f.topic, event |-> "phx_reply", ref |-> f.ref,
                           status |-> status, changes |-> NoChanges]),
            Op("reply", 0, f.ref, status))

\* the server closes or crashes a channel process it has seen join
ServerPush(f, event) ==
  /\ conn = "open"
  /\ f \in seen
  /\ Commit(onConnMessage(Cur, [topic |-> f.topic, event |-> event, ref |-> f.join_ref,
                                status |-> "", changes |-> NoChanges]),
            Op(event, 0, f.join_ref, ""))

\* The frames a peer may send about the request with ref r: the ok reply as
\* text and in the binary form, the text cut short, the text of an empty
\* array, a binary frame of an unknown kind, a binary reply whose event size
\* points past the end of the buffer, and a binary reply without its sizes.
ReplyText(r) ==
  JSON_stringifyArray(<<JNull, JStr(Digits(r)), JStr(Chars("realtime:a")),
                        JStr(Chars("phx_reply")),
                        JObj(<< <<Chars("status"), JStr(Chars("ok"))>>,
                                <<Chars("response"), JObj(<<>>)>> >>)>>)

ReplyHeader(r, eventSize) ==
  <<KINDS.reply, 0, Len(Digits(r)), Len(Chars("realtime:a")), eventSize>>
    \o Digits(r) \o Chars("realtime:a")

FrameClasses ==
  {"text", "text_cut", "text_empty", "binary", "binary_kind", "binary_cut", "binary_short"}

RawFrame(class, r) ==
  CASE class = "text" -> Text(ReplyText(r))
    [] class = "text_cut" -> Text(SubSeq(ReplyText(r), 1, Len(ReplyText(r)) - 1))
    [] class = "text_empty" -> Text(<<91, 93>>)
    [] class = "binary" -> Buf(ReplyHeader(r, Len(Chars("ok"))) \o Chars("ok"))
    [] class = "binary_kind" ->
         Buf(<<3>> \o Tail(ReplyHeader(r, Len(Chars("ok")))) \o Chars("ok"))
    [] class = "binary_cut" -> Buf(ReplyHeader(r, Len(Chars("ok"))))
    [] OTHER -> Buf(<<KINDS.reply>>)

\* conn.onmessage with a frame about a request the server holds; a reply
\* answers the request
ConnMessage(class, f) ==
  /\ conn = "open"
  /\ f \in wire
  /\ Commit(onConnMessageData(
              [Cur EXCEPT !.wire = IF class \in {"text", "binary"} THEN @ \ {f} ELSE @],
              RawFrame(class, f.ref)),
            Op("message", 0, f.ref, class))

\* timers
HeartbeatTick ==
  /\ heartbeatTimer
  /\ Commit(sendHeartbeat(Cur), Op("heartbeat", 0, Null, ""))

ReconnectTimerFire ==
  /\ reconnectTimer.timer
  /\ Commit(reconnect([Cur EXCEPT !.reconnectTimer = Timer_fired(@)]),
            Op("reconnect", 0, Null, ""))

RejoinTimerFire(c) ==
  /\ chan[c].rejoinTimer.timer
  /\ Commit(rejoinUntilConnected([Cur EXCEPT !.chan[c].rejoinTimer = Timer_fired(@)], c),
            Op("rejoin", c, Null, ""))

JoinPushTimeout(c, t) ==
  /\ t \in chan[c].timers
  /\ Commit(Push_trigger([Cur EXCEPT !.chan[c].timers = @ \ {t}], c, "timeout"),
            Op("jointimeout", c, t, ""))

PushTimeout(c, r) ==
  /\ r \in chan[c].pushes \cup chan[c].leaves
  /\ Commit(trigger(Cur, c, "chan_reply", r, "timeout"), Op("pushtimeout", c, r, ""))

Next ==
  \/ \E c \in Driven : Subscribe(c)
  \/ \E c \in Driven : Unsubscribe(c)
  \/ Connect
  \/ Disconnect
  \/ ConnOpen
  \/ ConnClose
  \/ ConnError
  \/ \E f \in Answerable : \E status \in ReplyStatuses(f) : ServerReply(f, status)
  \/ \E f \in seen, event \in {"phx_close", "phx_error"} : ServerPush(f, event)
  \/ HeartbeatTick
  \/ ReconnectTimerFire
  \/ \E c \in Chans : RejoinTimerFire(c)
  \/ \E c \in Chans : \E t \in chan[c].timers : JoinPushTimeout(c, t)
  \/ \E c \in Chans : \E r \in chan[c].pushes \cup chan[c].leaves : PushTimeout(c, r)

Spec == Init /\ [][Next]_vars


(***************************************************************************)
(* The pushes of one channel: the user subscribes and tracks, the socket   *)
(* opens and the server grants the join; no reply to a push arrives and no *)
(* timeout fires, so that pushes accumulate.                               *)
(***************************************************************************)
PushNext ==
  \/ \E c \in Driven : Subscribe(c)
  \/ \E c \in Driven : Track(c)
  \/ ConnOpen
  \/ \E f \in Answerable : ServerReply(f, "ok")

PushSpec == Init /\ [][PushNext]_vars

(***************************************************************************)
(* The frames of the socket: the user subscribes, the socket opens,        *)
(* heartbeats are sent, join pushes time out, and the peer sends frames,   *)
(* well-formed and not, about the requests it holds.                       *)
(***************************************************************************)
RawNext ==
  \/ \E c \in Driven : Subscribe(c)
  \/ ConnOpen
  \/ HeartbeatTick
  \/ \E class \in FrameClasses : \E f \in wire : ConnMessage(class, f)
  \/ \E c \in Chans : \E t \in chan[c].timers : JoinPushTimeout(c, t)

RawSpec == Init /\ [][RawNext]_vars

(***************************************************************************)
(* The postgres_changes bindings of one channel: the user registers        *)
(* bindings and subscribes, the socket opens, and the server answers the   *)
(* join with ok, with or without a postgres_changes list; the list it      *)
(* sends may or may not agree with the bindings.                           *)
(***************************************************************************)
\* the filters of a binding: they differ in the event
PgFilters ==
  {[event |-> e, schema |-> "public", table |-> "users", filter |-> "id=eq.1"] :
     e \in {"INSERT", "*"}}

\* the id the server gives the entry at index i of its list
ServerId(i) == 10 + i

\* the postgres_changes lists of a reply
ServerChanges ==
  UNION {{[i \in 1..n |-> [event |-> fs[i].event, schema |-> fs[i].schema,
                           table |-> fs[i].table, filter |-> fs[i].filter,
                           id |-> ServerId(i)]] : fs \in [1..n -> PgFilters]} :
         n \in 0..MaxChanges}

OnPostgres(c, filter) ==
  /\ Len(chan[c].postgres_changes) < MaxChanges
  /\ Commit(on(Cur, c, "postgres_changes", filter), Op("on", c, Null, "postgres_changes"))

\* the server answers a join with ok and a postgres_changes list
ServerReplyChanges(f, list) ==
  /\ conn = "open"
  /\ f \in wire
  /\ f.event = "phx_join"
  /\ Commit(onConnMessage([Cur EXCEPT !.wire = @ \ {f}],
                          [topic |-> f.topic, event |-> "phx_reply", ref |-> f.ref,
                           status |-> "ok", changes |-> Changes(list)]),
            Op("reply", 0, f.ref, "ok"))

PgNext ==
  \/ \E c \in Driven : \E filter \in PgFilters : OnPostgres(c, filter)
  \/ \E c \in Driven : Subscribe(c)
  \/ ConnOpen
  \/ \E f \in Answerable : ServerReply(f, "ok")
  \/ \E f \in wire : \E list \in ServerChanges : ServerReplyChanges(f, list)
  \/ \E c \in Chans : \E t \in chan[c].timers : JoinPushTimeout(c, t)
  \/ \E c \in Chans : RejoinTimerFire(c)

PgSpec == Init /\ [][PgNext]_vars

(***************************************************************************)
(* Teardown: the user subscribes, tracks and tears the channel down, any   *)
(* number of times and in any state of the channel; the socket opens, the  *)
(* server answers joins with ok or error, and timers fire.                 *)
(***************************************************************************)
\* channel.track() within the bound of the ref counter
TrackWithin(c) ==
  /\ chan[c].joinedOnce
  /\ Commit(channelPush(Cur, c, "presence"), Op("track", c, Null, ""))

\* channel.teardown(); the step records how many buffered pushes the call
\* found, and whether bindings had been cleared before
Teardown(c) ==
  Commit(teardown(Cur, c),
         Op("teardown", c, Len(chan[c].pushBuffer),
            IF chan[c].bound THEN "first" ELSE "again"))

TeardownNext ==
  \/ \E c \in Driven : Subscribe(c)
  \/ \E c \in Driven : TrackWithin(c)
  \/ \E c \in Driven : Teardown(c)
  \/ ConnOpen
  \/ \E f \in Answerable : \E status \in ReplyStatuses(f) : ServerReply(f, status)
  \/ \E c \in Chans : RejoinTimerFire(c)
  \/ \E c \in Chans : \E t \in chan[c].timers : JoinPushTimeout(c, t)
  \/ \E c \in Chans : \E r \in chan[c].pushes \cup chan[c].leaves : PushTimeout(c, r)

TeardownSpec == Init /\ [][TeardownNext]_vars

(***************************************************************************)
(* Presence of one channel: the user subscribes, the socket opens, the     *)
(* server answers joins with ok or error, the rejoin timer fires, and the  *)
(* server sends presence_state and presence_diff messages to the channel   *)
(* it has seen join, in any order.  Every key of a message has a list of   *)
(* one meta at least.                                                      *)
(***************************************************************************)
\* the presence_refs the server gives the metas of a key
KeyRefs == [u1 |-> {1, 2}, u2 |-> {3}]

MetaLists(key) ==
  {ms \in UNION {[1..n -> KeyRefs[key]] : n \in 1..Cardinality(KeyRefs[key])} :
     \A i, j \in 1..Len(ms) : i # j => ms[i] # ms[j]}

PresenceStates ==
  {st \in UNION {[K -> UNION {MetaLists(k) : k \in K}] : K \in SUBSET DOMAIN KeyRefs} :
     \A k \in DOMAIN st : st[k] \in MetaLists(k)}

\* a map of one key with one meta
One(key, r) == [k \in {key} |-> <<r>>]

\* the diffs: a meta of u2 or of u1 leaves, a second meta of u1 joins, u2
\* joins as a meta of u1 leaves
PresenceDiffs ==
  {[joins |-> NoKeys, leaves |-> One("u2", 3)],
   [joins |-> NoKeys, leaves |-> One("u1", 1)],
   [joins |-> One("u1", 2), leaves |-> NoKeys],
   [joins |-> One("u2", 3), leaves |-> One("u1", 1)]}

PresenceOp(name, c, payload) ==
  [name |-> name, c |-> c, ref |-> Null, status |-> "", payload |-> payload]

\* a presence message reaches the channels of the topic
PresenceMessage(c, event, payload) ==
  /\ conn = "open"
  /\ \E f \in seen : f.topic = topic[c]
  /\ \A d \in Chans : Len(chan[d].presence.pendingDiffs) < MaxPending
  /\ Commit(onConnMessage([Cur EXCEPT !.payload = payload],
                          [topic |-> topic[c], event |-> event, ref |-> Null,
                           status |-> "", changes |-> NoChanges]),
            PresenceOp(event, c, payload))

PresenceStateMessage(c, newState) ==
  PresenceMessage(c, "presence_state", [NoPayload EXCEPT !.state = newState])

PresenceDiffMessage(c, diff) ==
  PresenceMessage(c, "presence_diff",
                  [NoPayload EXCEPT !.joins = diff.joins, !.leaves = diff.leaves])

PresenceNext ==
  \/ \E c \in Driven : Subscribe(c)
  \/ ConnOpen
  \/ \E f \in Answerable : \E status \in ReplyStatuses(f) : ServerReply(f, status)
  \/ \E c \in Chans : RejoinTimerFire(c)
  \/ \E c \in Driven : \E newState \in PresenceStates : PresenceStateMessage(c, newState)
  \/ \E c \in Driven : \E diff \in PresenceDiffs : PresenceDiffMessage(c, diff)

\* the client has made the one channel that is driven
PresenceInit == ConstructedWith(<<1>>) /\ ref = 0 /\ accessToken = NoToken /\ CodecIdle

PresenceSpec == PresenceInit /\ [][PresenceNext]_vars

(***************************************************************************)
(* Presence bindings of one channel: the user registers presence bindings  *)
(* and subscribes, in any order; the socket opens, the server answers      *)
(* joins, and timers fire.                                                 *)
(***************************************************************************)
OnPresence(c) ==
  /\ chan[c].presenceBindings < MaxPresence
  /\ Commit(runChained(on(Cur, c, "presence", "sync")), Op("on", c, Null, "presence"))

OnNext ==
  \/ \E c \in Driven : OnPresence(c)
  \/ \E c \in Driven : Subscribe(c)
  \/ ConnOpen
  \/ \E f \in Answerable : \E status \in ReplyStatuses(f) : ServerReply(f, status)
  \/ \E c \in Chans : RejoinTimerFire(c)
  \/ \E c \in Chans : \E t \in chan[c].timers : JoinPushTimeout(c, t)
  \/ \E c \in Chans : \E r \in chan[c].pushes \cup chan[c].leaves : PushTimeout(c, r)

OnSpec == Init /\ [][OnNext]_vars

(***************************************************************************)
(* The access token: the client is made with or without an apikey and with *)
(* or without a token provider; the user calls setAuth with a token and    *)
(* without one and subscribes, the socket opens, the server answers, and   *)
(* heartbeats are sent.                                                    *)
(***************************************************************************)
ApiKey == "apikey"
Jwt == "jwt"

\* options.accessToken: none, or a provider that throws or that rejects;
\* the constructor does not read the option
Providers == {"none", "throws", "rejects"}

\* setAuth(token)
SetAuth(token) == Commit(setAuth(Cur, token), Op("setAuth", 0, Null, "token"))

\* setAuth() of a client made with the provider: token is undefined
SetAuthDefault(provider) ==
  Commit(setAuth(Cur, NoToken), Op("setAuth", 0, Null, provider))

AuthNext ==
  \/ \E token \in {Jwt, NoToken} : SetAuth(token)
  \/ \E provider \in Providers : SetAuthDefault(provider)
  \/ \E c \in Driven : Subscribe(c)
  \/ ConnOpen
  \/ \E f \in Answerable : ServerReply(f, "ok")
  \/ HeartbeatTick

AuthInit == Constructed /\ ref = 0 /\ accessToken \in {NoToken, ApiKey} /\ CodecIdle

AuthSpec == AuthInit /\ [][AuthNext]_vars

(***************************************************************************)
(* The push buffer of one channel: the user subscribes and sends presence  *)
(* and postgres_changes messages, which are buffered until the channel has *)
(* joined; the socket opens, the server answers joins with ok or error,    *)
(* and the timeouts of the pushes and the rejoin timer fire.               *)
(***************************************************************************)
\* the types of a send() that goes through _push in every state
SendTypes == {"presence", "postgres_changes"}

\* a task that neither starts nor ends with the ref counter beyond max
CommitUpTo(max, s0, o) == ref <= max /\ s0.ref <= max /\ CommitAny(s0, o)

\* channel.send({type, ...})
Send(c, type) ==
  /\ chan[c].joinedOnce
  /\ CommitUpTo(MaxBufferRef, channelPush(Cur, c, type), Op("send", c, Null, type))

\* the server grants a join it holds
JoinReplyOk(f) ==
  /\ conn = "open"
  /\ f \in wire
  /\ f.event = "phx_join"
  /\ CommitUpTo(MaxBufferRef,
                onConnMessage([Cur EXCEPT !.wire = @ \ {f}],
                              [topic |-> f.topic, event |-> "phx_reply", ref |-> f.ref,
                               status |-> "ok", changes |-> NoChanges]),
                Op("reply", 0, f.ref, "ok"))

BufferNext ==
  \/ \E c \in Driven : Subscribe(c)
  \/ \E c \in Driven : \E type \in SendTypes : Send(c, type)
  \/ ConnOpen
  \/ \E f \in wire : JoinReplyOk(f)
  \/ \E f \in Answerable : ServerReply(f, "error")
  \/ \E c \in Chans : RejoinTimerFire(c)
  \/ \E c \in Chans : \E t \in chan[c].timers : JoinPushTimeout(c, t)
  \/ \E c \in Chans : \E r \in chan[c].pushes \cup chan[c].leaves : PushTimeout(c, r)

BufferSpec == Init /\ [][BufferNext]_vars

(***************************************************************************)
(* The rejoin loop called on a channel in a state of the caller's choice,  *)
(* as the tests of the loop do: the caller assigns the public field state  *)
(* and calls _rejoinUntilConnected; the user subscribes, the socket opens  *)
(* and closes, the server answers joins, and the rejoin timer fires.       *)
(***************************************************************************)
\* channel.state = st
AssignState(c, st) ==
  Commit([Cur EXCEPT !.chan[c].state = st], Op("state", c, Null, st))

\* channel._rejoinUntilConnected(), called with no firing pending
CallRejoinUntilConnected(c) ==
  /\ ~chan[c].rejoinTimer.timer
  /\ Commit(rejoinUntilConnected(Cur, c), Op("rejoin", c, Null, "call"))

LoopNext ==
  \/ \E c \in Driven : Subscribe(c)
  \/ \E c \in Driven : \E st \in {"errored", "leaving", "closed"} : AssignState(c, st)
  \/ \E c \in Driven : CallRejoinUntilConnected(c)
  \/ ConnOpen
  \/ ConnClose
  \/ \E f \in Answerable : \E status \in ReplyStatuses(f) : ServerReply(f, status)
  \/ \E c \in Chans : RejoinTimerFire(c)

LoopSpec == Init /\ [][LoopNext]_vars

(***************************************************************************)
(* A channel used after teardown(): the user subscribes, unsubscribes,     *)
(* tracks and tears the channel down, in any order; the socket opens, the  *)
(* server answers joins with ok or error, and timers fire.                 *)
(***************************************************************************)
ReuseNext ==
  \/ \E c \in Driven : Subscribe(c)
  \/ \E c \in Driven : Unsubscribe(c)
  \/ \E c \in Driven : TrackWithin(c)
  \/ \E c \in Driven : Teardown(c)
  \/ ConnOpen
  \/ \E f \in Answerable : \E status \in ReplyStatuses(f) : ServerReply(f, status)
  \/ \E c \in Chans : RejoinTimerFire(c)
  \/ \E c \in Chans : \E t \in chan[c].timers : JoinPushTimeout(c, t)
  \/ \E c \in Chans : \E r \in chan[c].pushes \cup chan[c].leaves : PushTimeout(c, r)

ReuseSpec == Init /\ [][ReuseNext]_vars

(***************************************************************************)
(* Two channels of one topic, both driven: the user subscribes and         *)
(* unsubscribes either channel; the socket opens, the server answers joins *)
(* with ok or error, and timers fire.                                      *)
(***************************************************************************)
TopicNext ==
  \/ \E c \in Chans : Subscribe(c)
  \/ \E c \in Chans : Unsubscribe(c)
  \/ ConnOpen
  \/ \E f \in Answerable : \E status \in ReplyStatuses(f) : ServerReply(f, status)
  \/ \E c \in Chans : RejoinTimerFire(c)
  \/ \E c \in Chans : \E t \in chan[c].timers : JoinPushTimeout(c, t)
  \/ \E c \in Chans : \E r \in chan[c].pushes \cup chan[c].leaves : PushTimeout(c, r)

TopicSpec == Init /\ [][TopicNext]_vars

(***************************************************************************)
(* The backoff timer on its own: schedule() and reset() are called in any  *)
(* order and the host fires pending timeouts.  reconnectTimer is taken     *)
(* along as the client's view of the same timer.                           *)
(***************************************************************************)
TimerStep(b, t, o) ==
  /\ backoff' = b
  /\ reconnectTimer' = t
  /\ op' = o
  /\ UNCHANGED <<topic, conn, channels, sendBuffer, wire, seen, ref,
                 pendingHeartbeatRef, heartbeatTimer, chan, pushed, sent, cbs,
                 resolved, closeArgs, thrown, accessToken, pcbs, response, frame,
                 raw, back>>

Schedule ==
  /\ backoff.handles < MaxHandles
  /\ TimerStep(schedule(backoff), Timer_scheduleTimeout(reconnectTimer),
               Op("schedule", 0, reconnectAfterMs(backoff.tries + 1),
                  IF backoff.pending = {} THEN "armed" ELSE "rearmed"))

Reset ==
  TimerStep(reset(backoff), Timer_reset(reconnectTimer),
            Op("reset", 0, Null, IF backoff.pending = {} THEN "idle" ELSE "cancelled"))

Fire(f) ==
  /\ f \in backoff.pending
  /\ TimerStep(fire(backoff, f), Timer_fired(reconnectTimer),
               Op("fire", 0, f.delay, ""))

TimerNext == Schedule \/ Reset \/ \E f \in backoff.pending : Fire(f)

TimerSpec == Init /\ [][TimerNext]_vars

(***************************************************************************)
(* The join payload of one channel: the user subscribes and unsubscribes   *)
(* and gives the client new tokens, the socket opens and fails, the server *)
(* answers, the rejoin timer fires and pushes time out.                    *)
(***************************************************************************)
PayloadNext ==
  \/ \E c \in Driven : Subscribe(c)
  \/ \E c \in Driven : Unsubscribe(c)
  \/ \E token \in {Jwt, ApiKey} : SetAuth(token)
  \/ ConnOpen
  \/ ConnError
  \/ \E f \in Answerable : \E st \in ReplyStatuses(f) : ServerReply(f, st)
  \/ \E c \in Driven : RejoinTimerFire(c)
  \/ \E c \in Driven : \E t \in chan[c].timers : JoinPushTimeout(c, t)
  \/ \E c \in Driven : \E r \in chan[c].pushes : PushTimeout(c, r)

PayloadSpec == Init /\ [][PayloadNext]_vars

(***************************************************************************)
(* The serializer alone: a message is given to encode and the result of    *)
(* encode is given to decode.  The messages: join_ref and ref null or a    *)
(* string, topic and event strings (with a quote or a backslash among the  *)
(* characters), the payload an object or an ArrayBuffer.                   *)
(***************************************************************************)
CodecRefs == {JNull, JStr(<<49>>), JStr(<<49, 50>>)}
CodecTopics == {JStr(<<116>>), JStr(<<116, 58, 34, 97>>), JStr(<<92, 116>>)}
CodecEvents == {JStr(<<101>>), JStr(<<>>)}
CodecPayloads ==
  {JObj(<<>>),
   JObj(<< <<<<107>>, JStr(<<118, 34>>)>> >>),
   JObj(<< <<<<107>>, JNull>>, <<<<111>>, JObj(<< <<<<92>>, JStr(<<>>)>> >>)>> >>),
   Buf(<<>>),
   Buf(<<0, 255, 34>>)}

Messages ==
  {Msg(jr, r, tp, ev, pl) :
     jr \in CodecRefs, r \in CodecRefs, tp \in CodecTopics, ev \in CodecEvents,
     pl \in CodecPayloads}

CodecInit ==
  /\ Constructed /\ ref = 0 /\ accessToken = NoToken
  /\ frame \in Messages /\ raw = Undefined /\ back = Undefined
  /\ backoff = Backoff_new

Encode ==
  /\ frame # Undefined /\ raw = Undefined
  /\ raw' = Serializer_encode(frame)
  /\ op' = Op("encode", 0, Null, "")
  /\ UNCHANGED <<topic, conn, channels, sendBuffer, wire, seen, ref,
                 pendingHeartbeatRef, heartbeatTimer, reconnectTimer, chan, pushed,
                 sent, cbs, resolved, closeArgs, thrown, accessToken, pcbs, response, frame,
                 back, backoff>>

Decode ==
  /\ raw \notin {Undefined, Thrown} /\ back = Undefined
  /\ back' = Serializer_decode(raw)
  /\ op' = Op("decode", 0, Null, "")
  /\ UNCHANGED <<topic, conn, channels, sendBuffer, wire, seen, ref,
                 pendingHeartbeatRef, heartbeatTimer, reconnectTimer, chan, pushed,
                 sent, cbs, resolved, closeArgs, thrown, accessToken, pcbs, response, frame,
                 raw, backoff>>

CodecNext == Encode \/ Decode

CodecSpec == CodecInit /\ [][CodecNext]_vars

(***************************************************************************)
(* The ref counter at its restart: a client whose counter is two calls     *)
(* before the overflow and that has nothing pending.  The user subscribes  *)
(* and unsubscribes, the socket opens, the server answers, heartbeats are  *)
(* sent and pushes time out.                                               *)
(***************************************************************************)
RefInit == Constructed /\ ref = RefStart /\ accessToken = NoToken /\ CodecIdle

RefNext ==
  \/ \E c \in Driven : Subscribe(c)
  \/ \E c \in Driven : Unsubscribe(c)
  \/ ConnOpen
  \/ \E f \in Answerable : ServerReply(f, "ok")
  \/ HeartbeatTick
  \/ \E c \in Chans : \E t \in chan[c].timers : JoinPushTimeout(c, t)
  \/ \E c \in Chans : \E r \in chan[c].pushes \cup chan[c].leaves : PushTimeout(c, r)

RefSpec == RefInit /\ [][RefNext]_vars

(***************************************************************************)
(* The cooperative environment of the recovery properties: the server      *)
(* answers every request with ok and closes no channel, the transport may  *)
(* still fail, and the user may subscribe, disconnect and connect.  A      *)
(* pending timer eventually fires (setTimeout), a socket being opened      *)
(* eventually opens, and a request the server holds on an open socket is   *)
(* eventually answered.  User calls and transport failures are not forced. *)
(***************************************************************************)
LiveNext ==
  \/ \E c \in Driven : Subscribe(c)
  \/ Connect
  \/ Disconnect
  \/ ConnOpen
  \/ ConnClose
  \/ \E f \in Answerable : ServerReply(f, "ok")
  \/ ReconnectTimerFire
  \/ \E c \in Chans : RejoinTimerFire(c)
  \/ \E c \in Chans : \E t \in chan[c].timers : JoinPushTimeout(c, t)
  \/ \E c \in Chans : \E r \in chan[c].pushes \cup chan[c].leaves : PushTimeout(c, r)

\* the guard of ServerReply
ReplyDue == conn = "open" /\ Answerable # {}

\* the guard of RejoinTimerFire
RejoinDue == \E c \in Chans : chan[c].rejoinTimer.timer

\* Weak fairness of each of the system's steps.  For ServerReply and
\* RejoinTimerFire it is written out, []<>(not enabled) \/ []<>(step taken),
\* with the step's guard as its enabling condition.
FairSpec ==
  /\ Init
  /\ [][LiveNext]_vars
  /\ WF_vars(ConnOpen)
  /\ WF_vars(ReconnectTimerFire)
  /\ WF_vars(\E c \in Chans : \E t \in chan[c].timers : JoinPushTimeout(c, t))
  /\ WF_vars(\E c \in Chans : \E r \in chan[c].pushes \cup chan[c].leaves : PushTimeout(c, r))
  /\ ([]<>(~ReplyDue) \/ []<><<op'.name = "reply">>_vars)
  /\ ([]<>(~RejoinDue) \/ []<><<op'.name = "rejoin">>_vars)

(***************************************************************************)
(* Helpers of the claims.                                                  *)
(***************************************************************************)
\* the phx_join frames among the frames the last step handed to the client
JoinsPushed == SelectSeq(pushed, LAMBDA f: f.event = "phx_join")

\* the refs of the joins the server has seen on the current connection
JoinsSeen == {f.ref : f \in seen}

\* the last step was the server's reply, of the given status, that the client
\* dispatched to the live reply binding of c's join push
JoinReplyStep(c, status) ==
  /\ op'.name = "reply" /\ op'.status = status
  /\ op'.ref \in chan[c].joinB
  /\ \E i \in 1..Len(channels) : channels[i] = c

C3_Original ==
  [][\A c \in Chans :
       (op'.name = "subscribe" /\ op'.c = c /\ chan[c].joinedOnce)
         => JoinsPushed' = <<>>]_vars

(***************************************************************************)
(* C3, amended: joinedOnce, once set, stays set, and a subscribe() call on *)
(* a channel that has joined once starts another join exactly when the     *)
(* channel is closed at the call.                                          *)
(***************************************************************************)
C3_LatchAmended ==
  [][\A c \in Chans :
       /\ chan[c].joinedOnce => chan'[c].joinedOnce
       /\ (op'.name = "subscribe" /\ op'.c = c /\ chan[c].joinedOnce)
            => (JoinsPushed' # <<>> <=> chan[c].state = "closed")]_vars

C3_Witness ==
  /\ op.name = "subscribe" /\ op.c = 1
  /\ JoinsPushed # <<>>
  /\ chan[1].subs = 2


\* the bounds of the model, not the program, keep channel c from rejoining
CapReached(c) ==
  \/ ref >= MaxRef /\ chan[c].state \in {"errored", "joining"}
  \/ chan[c].rejoinTimer.tries >= MaxTries /\ chan[c].state = "errored"

\* channel c was joined and an unexpected close of the socket has just errored it
ClosedUnderJoined(c) ==
  /\ op.name = "onclose"
  /\ chan[c].state = "errored"
  /\ chan[c].joinPush.receivedResp = "ok"

\* channel c is joined by a phx_join sent on the current connection
Rejoined(c) ==
  /\ conn = "open"
  /\ chan[c].state = "joined"
  /\ chan[c].joinPush.ref \in JoinsSeen

(***************************************************************************)
(* C4.  Claim: an unexpected close of the socket moves a joined channel to *)
(* errored and arms the reconnect timer, and, if the transport from some   *)
(* point on stays open and the server answers ok, the channel is           *)
(* eventually joined again by a new phx_join (unless a bound of the model  *)
(* is reached).                                                            *)
(***************************************************************************)
C4_RecoversAfterClose ==
  /\ [][\A c \in Chans :
          (op'.name = "onclose" /\ chan[c].state = "joined")
            => (chan'[c].state = "errored" /\ reconnectTimer'.timer)]_vars
  /\ \A c \in Driven :
       <>[](conn = "open") => (ClosedUnderJoined(c) ~> (Rejoined(c) \/ CapReached(c)))

(***************************************************************************)
(* C5.  Claim: after disconnect() and then connect(), if the transport     *)
(* from some point on stays open and the server answers ok, a channel that *)
(* was joined is eventually joined by a phx_join sent on the new socket    *)
(* (unless a bound of the model is reached).                               *)
(***************************************************************************)
C5_RestoredAfterReconnect ==
  \A c \in Driven :
    <>[](conn = "open")
      => ((op.name = "connect" /\ conn = "connecting" /\ chan[c].state = "joined")
            ~> (Rejoined(c) \/ CapReached(c)))

(***************************************************************************)
(* C6: disconnect() leaves the client without a socket and with the        *)
(* reconnect timer unarmed; while there is no socket the reconnect timer   *)
(* stays unarmed and a socket appears only through connect(), called by    *)
(* the user or by subscribe(); an unexpected close arms the reconnect      *)
(* timer.                                                                  *)
(***************************************************************************)
C6_NoReconnectAfterDisconnect ==
  [][/\ op'.name = "disconnect" => (conn' = "null" /\ ~reconnectTimer'.timer)
     /\ conn = "null" => ~reconnectTimer.timer
     /\ (conn = "null" /\ conn' # "null") => op'.name \in {"connect", "subscribe"}
     /\ op'.name = "onclose" => (reconnectTimer'.timer /\ conn' # "null")]_vars

C6_Witness ==
  /\ op.name = "disconnect"
  /\ closeArgs # <<>>
  /\ chan[1].state = "errored"
  /\ conn = "null"

(***************************************************************************)
(* C7.  Claim: a heartbeat tick that finds the previous heartbeat          *)
(* unanswered closes the socket with code 1000 and reason                  *)
(* "heartbeat timeout", sends no heartbeat and clears the pending ref.     *)
(***************************************************************************)
C7_HeartbeatTimeoutClose ==
  [][(op'.name = "heartbeat" /\ conn = "open" /\ pendingHeartbeatRef # Null)
       => /\ closeArgs' = <<<<WS_CLOSE_NORMAL, "heartbeat timeout">>>>
          /\ pushed' = <<>>
          /\ pendingHeartbeatRef' = Null]_vars

(***************************************************************************)
(* C8.  Claim: the pending heartbeat ref is set only by a heartbeat send,  *)
(* is null right after disconnect(), and a reply that arrives when it is   *)
(* null leaves it null.                                                    *)
(***************************************************************************)
C8_PendingHeartbeatWindow ==
  [][/\ op'.name = "disconnect" => pendingHeartbeatRef' = Null
     /\ (pendingHeartbeatRef' # Null /\ pendingHeartbeatRef' # pendingHeartbeatRef)
          => op'.name = "heartbeat"
     /\ (op'.name = "reply" /\ pendingHeartbeatRef = Null) => pendingHeartbeatRef' = Null]_vars

(***************************************************************************)
(* C9: a channel's join push has at most one reply binding and at most one *)
(* live timeout, both of the current join ref; right after a phx_join is   *)
(* handed to the client the only binding and the only timeout are those of *)
(* the ref that join carries, and every phx_join handed over is the        *)
(* current join of some channel.                                           *)
(***************************************************************************)
C9_OneJoinAttempt ==
  /\ \A i \in 1..Len(JoinsPushed) : \E c \in Chans : JoinsPushed[i].ref = chan[c].joinPush.ref
  /\ \A c \in Chans :
      /\ Cardinality(chan[c].joinB) <= 1
      /\ Cardinality(chan[c].timers) <= 1
      /\ chan[c].joinB \subseteq {chan[c].joinPush.ref}
      /\ chan[c].timers \subseteq {chan[c].joinPush.ref}
      /\ (\E i \in 1..Len(JoinsPushed) : JoinsPushed[i].ref = chan[c].joinPush.ref)
           => /\ chan[c].joinB = {chan[c].joinPush.ref}
              /\ chan[c].timers = {chan[c].joinPush.ref}

C9_Witness ==
  /\ op.name = "rejoin" /\ op.c = 1
  /\ JoinsPushed # <<>>
  /\ chan[1].state = "joining"
  /\ \E f \in wire : f.event = "phx_join" /\ f.ref < chan[1].joinPush.ref

(***************************************************************************)
(* C10: a phx_close or phx_error whose ref is not the channel's current    *)
(* join ref changes nothing of the channel and does not remove it from the *)
(* client; a reply to a join that is not the channel's current join        *)
(* changes nothing of the channel.                                         *)
(***************************************************************************)
C10_StaleLifecycleDropped ==
  [][\A c \in Chans :
       /\ (op'.name \in {"phx_close", "phx_error"} /\ op'.ref # chan[c].joinPush.ref)
            => /\ chan'[c] = chan[c]
               /\ (\E i \in 1..Len(channels) : channels[i] = c)
                    => (\E i \in 1..Len(channels') : channels'[i] = c)
       /\ (op'.name = "reply" /\ op'.ref \in JoinsSeen /\ op'.ref # chan[c].joinPush.ref)
            => chan'[c] = chan[c]]_vars

C10_Witness ==
  /\ op.name \in {"phx_close", "phx_error"}
  /\ op.ref \in JoinsSeen
  /\ op.ref # chan[1].joinPush.ref
  /\ chan[1].state = "joined"

C10_WitnessReply ==
  /\ op.name = "reply" /\ op.status = "ok"
  /\ op.ref \in JoinsSeen
  /\ op.ref # chan[1].joinPush.ref
  /\ chan[1].state = "joining"

\* c is in the client's channel set
Registered(c) == \E i \in 1..Len(channels) : channels[i] = c

\* the phx_leave frames among the frames the last step handed to the client
LeavesPushed == SelectSeq(pushed, LAMBDA f: f.event = "phx_leave")

C12_OneLeaveFrame ==
  [][\A c \in Chans :
       (op'.name = "unsubscribe" /\ op'.c = c)
         => /\ Len(LeavesPushed') <= 1
            /\ (op.name = "unsubscribe" /\ op.c = c) => LeavesPushed' = <<>>]_vars

(***************************************************************************)
(* C13: an unsubscribe() called while the socket is connected and the      *)
(* channel joined does not resolve its promise itself: the leave push      *)
(* stays awaiting the server, and the promise resolves with the status of  *)
(* the server's reply to the phx_leave, or with "timed out" when the leave *)
(* push times out.                                                         *)
(***************************************************************************)
C13_ResolvesPerReply ==
  [][\A c \in Chans :
       /\ (op'.name = "unsubscribe" /\ op'.c = c /\ conn = "open"
              /\ chan[c].state = "joined")
            => (resolved' = <<>> /\ chan'[c].leaves # {})
       /\ (op'.name = "reply" /\ op'.ref \in chan[c].leaves /\ Registered(c))
            => resolved' = <<<<c, op'.status>>>>
       /\ (op'.name = "pushtimeout" /\ op'.c = c /\ op'.ref \in chan[c].leaves)
            => resolved' = <<<<c, "timed out">>>>]_vars

(***************************************************************************)
(* C14: a channel's push buffer never holds more than MAX_PUSH_BUFFER_SIZE *)
(* pushes; a push buffered onto a full buffer evicts and destroys exactly  *)
(* the oldest entry, the others keep their order with the new push last,   *)
(* and the buffer is full afterwards.                                      *)
(***************************************************************************)
C14_PushBufferBounded ==
  /\ [](\A c \in Chans : Len(chan[c].pushBuffer) <= MAX_PUSH_BUFFER_SIZE)
  /\ [][\A c \in Chans :
          (op'.name = "track" /\ op'.c = c
             /\ Len(chan[c].pushBuffer) = MAX_PUSH_BUFFER_SIZE
             /\ ~(conn = "open" /\ chan[c].state = "joined"))
            => /\ chan'[c].pushBuffer
                   = Append(Tail(chan[c].pushBuffer), [ref |-> ref', event |-> "presence"])
               /\ chan'[c].pushes
                   = (chan[c].pushes \ {Head(chan[c].pushBuffer).ref}) \cup {ref'}
               /\ Len(chan'[c].pushBuffer) = MAX_PUSH_BUFFER_SIZE]_vars

C14_Witness ==
  /\ op.name = "track" /\ op.c = 1
  /\ Len(chan[1].pushBuffer) = MAX_PUSH_BUFFER_SIZE
  /\ chan[1].pushBuffer[1].ref = 3
  /\ chan[1].pushBuffer[MAX_PUSH_BUFFER_SIZE].ref = ref
  /\ 2 \notin chan[1].pushes

\* the refs of c's pushes that were sent and have received no response: the
\* join push, the leave pushes and the other pushes that are not buffered
InFlight(c) ==
  chan[c].joinB \cup chan[c].leaves
    \cup (chan[c].pushes
           \ {chan[c].pushBuffer[i].ref : i \in 1..Len(chan[c].pushBuffer)})

(***************************************************************************)
(* C15: at every instant a channel has at most MAX_PUSH_BUFFER_SIZE + 1    *)
(* pushes that were sent and have not received a response.                 *)
(***************************************************************************)
C15_InFlightBounded ==
  \A c \in Chans : Cardinality(InFlight(c)) <= MAX_PUSH_BUFFER_SIZE + 1

(***************************************************************************)
(* C16: a send of a push gets at most one terminal outcome.  For the join  *)
(* push: once an outcome (a reply or the timeout) has been delivered to    *)
(* the hooks, neither the reply binding nor the timeout of that send is    *)
(* live; a timeout fires only for the send whose binding is live and is    *)
(* the outcome of that send; a reply whose ref has no live binding changes *)
(* nothing and calls no hook; and a ref that is bound by a step is a new   *)
(* one, so no send is bound again.  The timeout of any other push ends     *)
(* that push.                                                              *)
(***************************************************************************)
C16_OneOutcome ==
  /\ [](\A c \in Chans :
         chan[c].joinPush.receivedResp # "none"
           => (chan[c].joinB = {} /\ chan[c].timers = {}))
  /\ [][\A c \in Chans :
          /\ (op'.name = "jointimeout" /\ op'.c = c)
               => /\ op'.ref = chan[c].joinPush.refEvent
                  /\ op'.ref \in chan[c].joinB
                  /\ chan'[c].joinPush.receivedResp = "timeout"
                  /\ op'.ref \notin chan'[c].joinB \cup chan'[c].timers
          /\ (\E status \in {"ok", "error"} : JoinReplyStep(c, status))
               => /\ chan'[c].joinPush.receivedResp = op'.status
                  /\ op'.ref \notin chan'[c].joinB \cup chan'[c].timers
          /\ (op'.name = "reply"
                 /\ op'.ref \notin chan[c].joinB \cup chan[c].pushes \cup chan[c].leaves)
               => /\ chan'[c] = chan[c]
                  /\ \A i \in 1..Len(cbs') : cbs'[i][1] # c
          /\ (op'.name = "pushtimeout" /\ op'.c = c)
               => op'.ref \notin chan'[c].pushes \cup chan'[c].leaves
          /\ \A x \in chan'[c].joinB \ chan[c].joinB : x > ref]_vars

\* the server's reply to a join arrives after that join's timeout has fired
C16_Witness ==
  /\ op.name = "reply" /\ op.status = "ok"
  /\ op.ref = chan[1].joinPush.ref
  /\ chan[1].joinPush.receivedResp = "timeout"
  /\ chan[1].state = "errored"
  /\ cbs = <<>>

\* the phx_join frames of channel c that the client has been handed and that
\* are still known: buffered, or seen by the server on this connection
JoinsKnown(c) ==
  {f \in seen \cup wire \cup {sendBuffer[i] : i \in 1..Len(sendBuffer)} :
     f.event = "phx_join" /\ f.topic = topic[c]}

(***************************************************************************)
(* C17: the join_ref of a channel's successive phx_join frames strictly    *)
(* increases: a phx_join handed to the client carries its own ref as       *)
(* join_ref, and that ref is greater than the ref of the channel's         *)
(* previous join attempt and than the join_ref of every earlier phx_join   *)
(* of the channel that is buffered or that the server has seen.            *)
(***************************************************************************)
C17_JoinRefIncreases ==
  [][\A c \in Driven : \A i \in 1..Len(JoinsPushed') :
       LET f == JoinsPushed'[i]
       IN f.topic = topic[c]
            => /\ f.join_ref = f.ref
               /\ f.ref = chan'[c].joinPush.ref
               /\ f.join_ref > chan[c].joinPush.ref
               /\ \A g \in JoinsKnown(c) : g.join_ref < f.join_ref]_vars

\* a rejoin on the connection on which the server saw the first join
C17_Witness ==
  /\ op.name = "rejoin" /\ op.c = 1
  /\ Len(JoinsPushed) = 1
  /\ JoinsPushed[1].join_ref = chan[1].joinPush.ref
  /\ \E g \in seen : g.event = "phx_join" /\ g.join_ref < JoinsPushed[1].join_ref

\* the value after x of a counter that restarts at 0 after RefWrap
Succ(x) == IF x = RefWrap THEN 0 ELSE x + 1

RECURSIVE SuccN(_, _)
SuccN(x, n) == IF n = 0 THEN x ELSE Succ(SuccN(x, n - 1))

\* the refs of the heartbeat and of the pushes of c that await a reply
HeartbeatRefs == IF pendingHeartbeatRef = Null THEN {} ELSE {pendingHeartbeatRef}

AwaitingRefs(c) == chan[c].joinB \cup chan[c].pushes \cup chan[c].leaves

C19_BufferedThenFlushed ==
  /\ [](conn = "open" => sendBuffer = <<>>)
  /\ [][/\ (op'.name # "onopen" /\ conn # "open")
             => (sendBuffer' = sendBuffer \o pushed' /\ sent' = <<>>)
        /\ (op'.name # "onopen" /\ conn = "open")
             => (sent' = pushed' /\ sendBuffer' = <<>>)
        /\ (op'.name = "onopen")
             => /\ sent' = sendBuffer
                /\ sendBuffer' = <<>>
                /\ pushed' = <<>>
                /\ \A i \in 1..Len(sendBuffer) : sendBuffer[i] \in wire']_vars

\* the socket opens with two frames buffered
C19_Witness ==
  /\ op.name = "onopen"
  /\ Len(sent) = 2
  /\ sent[1].event = "phx_join" /\ sent[2].event = "phx_leave"
  /\ sent[1].ref < sent[2].ref
  /\ sendBuffer = <<>>
  /\ {sent[1], sent[2]} \subseteq wire

\* a message whose payload JSON can carry: no ArrayBuffer in it
RECURSIVE JSON_able(_)
JSON_able(v) ==
  CASE v.t \in {"null", "str"} -> TRUE
    [] v.t = "obj" -> \A i \in 1..Len(v.kv) : JSON_able(v.kv[i][2])
    [] OTHER -> FALSE

\* a message the binary encoder accepts: an ArrayBuffer payload, join_ref
\* and ref strings
Binary_able(m) ==
  m.payload.t = "buf" /\ m.join_ref.t = "str" /\ m.ref.t = "str"

(***************************************************************************)
(* C20: decode after encode gives back the message: for every message      *)
(* whose payload is a JSON value, and for every message with an            *)
(* ArrayBuffer payload and string refs, encode does not throw and decoding *)
(* what it produced yields the same join_ref, ref, topic, event and        *)
(* payload.                                                                *)
(***************************************************************************)
C20_RoundTrip ==
  (frame # Undefined /\ (JSON_able(frame.payload) \/ Binary_able(frame)))
    => /\ raw # Thrown
       /\ back # Undefined => back = frame

\* the part of C20 about the JSON form
C20_JsonRoundTrip ==
  (frame # Undefined /\ JSON_able(frame.payload))
    => /\ raw # Thrown
       /\ back # Undefined => back = frame

\* the frames that fail to decode: malformed text, an unknown binary kind, a
\* declared length past the end of the buffer
BadFrames == {"text_cut", "binary_kind", "binary_cut"}

(***************************************************************************)
(* C21: an inbound frame that fails to decode is dropped: no field of any  *)
(* channel changes, the client's channel set is unchanged, no subscribe    *)
(* callback is invoked, no exception escapes the message handler, and the  *)
(* socket stays open (no close() call).                                    *)
(***************************************************************************)
C21_BadFrameDropped ==
  [][(op'.name = "message" /\ op'.status \in BadFrames)
       => /\ chan' = chan
          /\ channels' = channels
          /\ cbs' = <<>>
          /\ ~thrown'
          /\ conn' = "open"
          /\ closeArgs' = <<>>]_vars

\* the part of C21 about the channels: a frame that fails to decode changes
\* no field of any channel
C21_BadFrameKeepsChannels ==
  [][(op'.name = "message" /\ op'.status \in BadFrames) => chan' = chan]_vars

\* the reply of the step answers the join of channel 1 with a
\* postgres_changes list that differs from the bindings at some index
MismatchReply ==
  /\ op'.name = "reply"
  /\ Registered(1)
  /\ chan[1].state = "joining"
  /\ op'.ref \in chan[1].joinB
  /\ chan[1].subs >= 1
  /\ response'.defined
  /\ \E i \in 1..Len(chan[1].postgres_changes) :
       ~isMatchingPostgresBinding(chan[1].postgres_changes[i], response'.list, i)

\* C22: when the postgres_changes list of the join ok reply differs at some
\* index from the channel's bindings, the subscribe callback gets
\* CHANNEL_ERROR and no SUBSCRIBED, the channel is unsubscribed (a phx_leave
\* is pushed and the channel leaves the client's channels), and the state of
\* the channel is errored.
C22_MismatchFails ==
  [][MismatchReply =>
       /\ \E i \in 1..Len(cbs') : cbs'[i] = <<1, "CHANNEL_ERROR">>
       /\ \A i \in 1..Len(cbs') : cbs'[i] # <<1, "SUBSCRIBED">>
       /\ \E i \in 1..Len(pushed') : pushed'[i].event = "phx_leave"
       /\ ~Registered(1)'
       /\ chan'[1].state = "errored"]_vars

\* C22, but for the state: the channel ends the step closed
C22_MismatchUnsubscribes ==
  [][MismatchReply =>
       /\ \E i \in 1..Len(cbs') : cbs'[i] = <<1, "CHANNEL_ERROR">>
       /\ \A i \in 1..Len(cbs') : cbs'[i] # <<1, "SUBSCRIBED">>
       /\ \E i \in 1..Len(pushed') : pushed'[i].event = "phx_leave"
       /\ ~Registered(1)'
       /\ chan'[1].state = "closed"]_vars

C24_TeardownRemoves ==
  [][op'.name = "teardown" =>
       /\ chan'[op'.c].state = "closed"
       /\ \A i \in 1..Len(channels') : channels'[i] # op'.c]_vars

\* C24, but for the membership: teardown() leaves client.channels as it was
C24_TeardownKeepsChannels ==
  [][op'.name = "teardown" =>
       chan'[op'.c].state = "closed" /\ channels' = channels]_vars

\* C25: whatever presence_state and presence_diff messages have come, the
\* presence state holds no key with an empty list of metas.
C25_NoEmptyMetaList ==
  \A c \in Chans : \A key \in DOMAIN chan[c].presence.state :
    chan[c].presence.state[key] # <<>>

\* a diff has taken the last meta of a key, and the key is gone
C25_Witness ==
  /\ op.name = "presence_diff"
  /\ \E i \in 1..Len(pcbs) : /\ pcbs[i].kind = "leave"
                              /\ pcbs[i].current = <<>>
                              /\ pcbs[i].key \notin DOMAIN chan[1].presence.state

\* the on_sync entry of the presence callbacks
SyncCallback == [kind |-> "sync", key |-> "", current |-> <<>>, metas |-> <<>>]

\* C26: a presence_diff that comes before the first presence_state of the
\* current join is queued and not applied (the state stays, no callback
\* fires); when the presence_state comes the state is synced to it, the
\* queued diffs are applied to the result in the order they came, the queue
\* is emptied, and on_sync fires once, after the on_join and on_leave
\* callbacks of the sync and of the diffs.
C26_PendingDiffsReplayed ==
  [][/\ (/\ op'.name = "presence_diff"
         /\ Registered(1)
         /\ (chan[1].presence.joinRef = Null
               \/ chan[1].presence.joinRef # chan[1].joinPush.ref))
        => /\ chan'[1].presence.state = chan[1].presence.state
           /\ chan'[1].presence.pendingDiffs
                = Append(chan[1].presence.pendingDiffs,
                         [joins |-> op'.payload.joins, leaves |-> op'.payload.leaves])
           /\ pcbs' = <<>>
     /\ (op'.name = "presence_state" /\ Registered(1))
        => LET synced == syncState([state |-> chan[1].presence.state, cbs |-> <<>>],
                                   op'.payload.state)
               replayed == syncDiffs(synced, chan[1].presence.pendingDiffs)
           IN /\ chan'[1].presence.state = replayed.state
              /\ chan'[1].presence.pendingDiffs = <<>>
              /\ pcbs' = Append(replayed.cbs, SyncCallback)
              /\ \A i \in 1..Len(replayed.cbs) : replayed.cbs[i].kind # "sync"]_vars

\* a presence_state has come and a queued diff has been applied to it: u2,
\* present in the message, has left, and on_sync has fired last
C26_Witness ==
  /\ op.name = "presence_state"
  /\ "u2" \in DOMAIN op.payload.state
  /\ "u2" \notin DOMAIN chan[1].presence.state
  /\ chan[1].presence.pendingDiffs = <<>>
  /\ Len(pcbs) >= 2
  /\ pcbs[Len(pcbs) - 1] = [kind |-> "leave", key |-> "u2", current |-> <<>>,
                            metas |-> <<3>>]
  /\ pcbs[Len(pcbs)] = SyncCallback

\* the step is on("presence", ...) on channel 1, joined
OnPresenceJoined ==
  op'.name = "on" /\ op'.status = "presence" /\ op'.c = 1 /\ chan[1].state = "joined"

\* C27: on("presence", ...) on a joined channel makes the channel leave and
\* subscribe again: a phx_leave and then a phx_join are sent, the config of
\* the join has presence.enabled = true, the channel is joining, and it is
\* among the client's channels, so that the server's reply reaches it.
C27_ResubscribeRouted ==
  [][OnPresenceJoined =>
       /\ \E i, j \in 1..Len(pushed') : /\ i < j
                                         /\ pushed'[i].event = "phx_leave"
                                         /\ pushed'[j].event = "phx_join"
       /\ chan'[1].config.presence.enabled
       /\ chan'[1].state = "joining"
       /\ Registered(1)']_vars

\* C27, but for the membership: the channel sends its join from outside the
\* client's channels
C27_ResubscribeUnrouted ==
  [][OnPresenceJoined =>
       /\ \E i, j \in 1..Len(pushed') : /\ i < j
                                         /\ pushed'[i].event = "phx_leave"
                                         /\ pushed'[j].event = "phx_join"
       /\ chan'[1].config.presence.enabled
       /\ chan'[1].state = "joining"
       /\ ~Registered(1)']_vars

\* no reply changes a channel that is not among the client's channels
C27_NoReplyReaches ==
  [][op'.name = "reply" /\ ~Registered(1) => chan'[1] = chan[1]]_vars

\* C28: on("presence", ...) on a joined channel makes the channel leave and
\* subscribe again when the binding is the first presence binding of the
\* channel; when the channel has presence bindings and has joined with
\* presence enabled, the binding is registered and the channel does not
\* leave.
C28_ResubscribeOnFirstOnly ==
  [][OnPresenceJoined =>
       /\ chan'[1].presenceBindings = chan[1].presenceBindings + 1
       /\ chan[1].presenceBindings = 0
            => \E i \in 1..Len(pushed') : pushed'[i].event = "phx_leave"
       /\ chan[1].presenceBindings > 0 /\ chan[1].config.presence.enabled
            => \A i \in 1..Len(pushed') : pushed'[i].event # "phx_leave"]_vars

\* every on("presence", ...) on a joined channel makes the channel leave
C28_ResubscribeAlways ==
  [][OnPresenceJoined =>
       /\ \E i \in 1..Len(pushed') : pushed'[i].event = "phx_leave"
       /\ chan'[1].presenceBindings = chan[1].presenceBindings + 1]_vars

\* C29: setAuth() without a token, on a client whose token provider throws
\* or rejects, does not raise, and the client's access token keeps the
\* value it had.
C29_SetAuthKeepsToken ==
  [][op'.name = "setAuth" /\ op'.status \in {"throws", "rejects"} =>
       ~thrown' /\ accessToken' = accessToken]_vars

\* setAuth() without a token does not raise, and leaves the client without
\* a token
C29_SetAuthDropsToken ==
  [][op'.name = "setAuth" /\ op'.status \in Providers =>
       ~thrown' /\ accessToken' = NoToken]_vars

\* the step brings an error to channel c: the socket has closed or failed,
\* the server has sent phx_error, or the join push of c has timed out or
\* got an error reply
IncomingError(c) ==
  \/ op'.name \in {"onclose", "onerror", "phx_error"}
  \/ op'.name = "jointimeout" /\ op'.c = c
  \/ op'.name = "reply" /\ op'.status = "error"

\* C30: an error that comes while the channel is leaving or closed is
\* ignored: the state stays as it is and the rejoin timer is not armed.
C30_ErrorsIgnoredWhenClosed ==
  [][\A c \in Chans :
       chan[c].state \in {"leaving", "closed"} /\ IncomingError(c) =>
         /\ chan'[c].state = chan[c].state
         /\ ~chan'[c].rejoinTimer.timer
         /\ chan'[c].rejoinTimer = chan[c].rejoinTimer]_vars

\* the join push of a closed channel has timed out, and the subscribe
\* callback got TIMED_OUT
C30_Witness ==
  /\ op.name = "jointimeout"
  /\ chan[op.c].state = "closed"
  /\ cbs = << <<op.c, "TIMED_OUT">> >>

\* the socket has failed with a closed channel among the client's channels
C30_WitnessSocket ==
  op.name = "onerror" /\ Registered(2) /\ chan[2].state = "closed"

\* the step is an ok reply that reaches the join push of channel 1, which
\* is among the client's channels
JoinGranted ==
  /\ op'.name = "reply" /\ op'.status = "ok"
  /\ op'.ref \in chan[1].joinB
  /\ Registered(1)

\* the events of the frames of send() calls among the frames fs, in order
SendEvents(fs) ==
  LET own == SelectSeq(fs, LAMBDA f : f.event \in SendTypes)
  IN [i \in 1..Len(own) |-> own[i].event]

\* C31: when the join is granted, the buffered pushes whose timeout has not
\* fired are put on the wire once each, in buffer order, those whose
\* timeout has fired are not, and the buffer is left empty.
C31_TimedOutNotSent ==
  [][JoinGranted =>
       LET live == SelectSeq(chan[1].pushBuffer, LAMBDA b : b.ref \in chan[1].pushes)
       IN /\ SendEvents(sent') = [i \in 1..Len(live) |-> live[i].event]
          /\ chan'[1].pushBuffer = <<>>]_vars

\* the join has been granted and one push has been sent from the buffer,
\* while two were buffered after the join was sent: the refs drawn since
\* are theirs, that of the push sent and that of the hook's access_token
C31_Witness ==
  /\ op.name = "reply" /\ op.status = "ok"
  /\ chan[1].state = "joined"
  /\ Len(SendEvents(sent)) = 1
  /\ cbs = << <<1, "SUBSCRIBED">> >>
  /\ ref = op.ref + 4

\* the join has been granted and two pushes have been sent from the buffer,
\* while three were buffered after the join was sent
C31_WitnessOrder ==
  /\ op.name = "reply" /\ op.status = "ok"
  /\ SendEvents(sent) = <<"postgres_changes", "presence">>
  /\ cbs = << <<1, "SUBSCRIBED">> >>
  /\ ref = op.ref + 6

\* the phx_join frames of channel c among the frames fs
JoinsOfChannel(fs, c) ==
  SelectSeq(fs, LAMBDA f : f.event = "phx_join" /\ f.topic = topic[c])

\* C32: when the rejoin timer of an errored channel fires while the socket
\* is not connected, the timer is armed again with one more try, no
\* phx_join is handed to the socket and the channel stays errored; when it
\* fires while the socket is connected, the channel is joining and its
\* phx_join is on the wire.
C32_RejoinWaitsForSocket ==
  [][\A c \in Chans :
       op'.name = "rejoin" /\ op'.c = c /\ chan[c].state = "errored" =>
         IF conn # "open"
         THEN /\ chan'[c].rejoinTimer.timer
              /\ chan'[c].rejoinTimer.tries = chan[c].rejoinTimer.tries + 1
              /\ JoinsOfChannel(pushed', c) = <<>>
              /\ chan'[c].state = "errored"
         ELSE /\ chan'[c].state = "joining"
              /\ Len(JoinsOfChannel(sent', c)) = 1]_vars

\* the rejoin timer of an errored channel has fired for the second time
\* with the socket closed
C32_Witness ==
  /\ op.name = "rejoin"
  /\ conn = "closed"
  /\ chan[op.c].state = "errored"
  /\ chan[op.c].rejoinTimer.tries = 2
  /\ pushed = <<>>

\* the rejoin timer has fired with the socket open and the channel has
\* sent its phx_join
C32_WitnessConnected ==
  /\ op.name = "rejoin"
  /\ conn = "open"
  /\ chan[op.c].state = "joining"
  /\ Len(JoinsOfChannel(sent, op.c)) = 1

\* the step runs the rejoin loop of channel c, which is leaving
LoopWhileLeaving(c) ==
  op'.name = "rejoin" /\ op'.c = c /\ chan[c].state = "leaving"

\* C33: when the rejoin loop of a leaving channel runs, the rejoin timer is
\* left as it is, with no firing pending, and no phx_join is handed to the
\* socket.
C33_LeavingNotArmed ==
  [][\A c \in Chans :
       LoopWhileLeaving(c) =>
         /\ chan'[c].rejoinTimer = chan[c].rejoinTimer
         /\ ~chan'[c].rejoinTimer.timer
         /\ JoinsOfChannel(pushed', c) = <<>>]_vars

\* when the rejoin loop of a leaving channel runs, no phx_join is handed to
\* the socket and the channel stays leaving; the rejoin timer is armed with
\* one more try
C33_LeavingArmedUnsent ==
  [][\A c \in Chans :
       LoopWhileLeaving(c) =>
         /\ chan'[c].rejoinTimer.timer
         /\ chan'[c].rejoinTimer.tries = chan[c].rejoinTimer.tries + 1
         /\ JoinsOfChannel(pushed', c) = <<>>
         /\ chan'[c].state = "leaving"]_vars

\* the rejoin loop has run on a leaving channel with the socket open
C33_Witness ==
  /\ op.name = "rejoin"
  /\ chan[op.c].state = "leaving"
  /\ conn = "open"

C34_ClosedRejoins ==
  [][\A c \in Chans :
       op'.name = "rejoin" /\ op'.c = c /\ chan[c].state = "closed" =>
         JoinsOfChannel(pushed', c) = <<>>]_vars

\* the last step was a subscribe(callback) call on channel 1 that found it
\* joining: the call has sent nothing
SubscribedWhileJoining ==
  /\ op.name = "subscribe" /\ op.c = 1
  /\ pushed = <<>>
  /\ chan[1].state = "joining"

\* the SUBSCRIBED callbacks of channel c among the callbacks cs
SubscribedCallbacks(cs, c) == SelectSeq(cs, LAMBDA cb : cb = <<c, "SUBSCRIBED">>)

\* C35: when the join is granted right after a subscribe(callback) call
\* that found the channel joining, the callback of that call is invoked
\* with SUBSCRIBED, in addition to those of the calls that started the join.
C35_SecondCallbackInvoked ==
  [][SubscribedWhileJoining /\ JoinGranted =>
       Len(SubscribedCallbacks(cbs', 1)) >= chan[1].subs + 1]_vars

\* when the join is granted, the callbacks invoked with SUBSCRIBED are
\* those of the subscribe() calls that found the channel closed
C35_RegisteredCallbacksOnly ==
  [][SubscribedWhileJoining /\ JoinGranted =>
       Len(SubscribedCallbacks(cbs', 1)) = chan[1].subs]_vars

\* channel c is joined or joining
Open(c) == chan[c].state \in {"joined", "joining"}

\* C36: no two channels of one topic are joined or joining together.
C36_OneOpenPerTopic ==
  \A c, d \in Chans : c # d /\ topic[c] = topic[d] => ~(Open(c) /\ Open(d))

\* no two channels of one topic that are in the client's channel set are
\* joined or joining together
C36_OneRegisteredOpen ==
  \A c, d \in Chans :
    c # d /\ topic[c] = topic[d] /\ Registered(c) /\ Registered(d) => ~(Open(c) /\ Open(d))

(***************************************************************************)
(* C37: the _remove(c) that an unsubscribe() of c runs takes c out of the  *)
(* client's channel set and leaves every other channel of the set in it,   *)
(* whatever its join ref.                                                  *)
(***************************************************************************)
C37_RemoveOnlyGiven ==
  [][\A c \in Chans :
       (op'.name = "unsubscribe" /\ op'.c = c)
         => /\ ~Registered(c)'
            /\ \A d \in Chans \ {c} : Registered(d) => Registered(d)']_vars

\* _remove(c) leaves the channels whose join ref differs from c's
C37_RemoveKeepsOtherRefs ==
  [][\A c \in Chans :
       (op'.name = "unsubscribe" /\ op'.c = c)
         => /\ ~Registered(c)'
            /\ \A d \in Chans \ {c} :
                 Registered(d) /\ chan[d].joinPush.ref # chan[c].joinPush.ref
                   => Registered(d)']_vars

(***************************************************************************)
(* C38: a backoff timer has at most one firing pending after any sequence  *)
(* of schedule() and reset() calls.  schedule() cancels the pending firing *)
(* and arms a new one with the delay delay_fn(tries + 1), and increments   *)
(* tries by one; reset() cancels the pending firing and sets tries to 0.   *)
(***************************************************************************)
Armed(b) == {f \in b.pending : f.handle = b.timer}

C38_OnePendingFiring ==
  [][/\ Cardinality(backoff'.pending) <= 1
     /\ op'.name = "schedule"
          => /\ backoff'.pending = Armed(backoff')
             /\ backoff'.pending \cap backoff.pending = {}
             /\ \A f \in backoff'.pending : f.delay = reconnectAfterMs(backoff.tries + 1)
             /\ Cardinality(backoff'.pending) = 1
             /\ backoff'.tries = backoff.tries + 1
     /\ op'.name = "reset" => (backoff'.pending = {} /\ backoff'.tries = 0)]_vars

\* schedule() has replaced a pending firing, on the fifth try in a row
C38_Witness ==
  /\ op.name = "schedule" /\ op.status = "rearmed"
  /\ backoff.tries = 5
  /\ \E f \in backoff.pending : f.delay = 10000

\* reset() has cancelled a pending firing
C38_WitnessReset == op.name = "reset" /\ op.status = "cancelled" /\ backoff.handles > 1

\* the client's view of the timer is the timer: a firing is pending exactly
\* when the view says so, and the tries agree
C38_ViewAgrees ==
  reconnectTimer = [timer |-> backoff.pending # {}, tries |-> backoff.tries]

(***************************************************************************)
(* C39: a channel's own rejoin never unsubscribes that channel.  When the  *)
(* rejoin timer of a joining or joined channel fires, the channel is not   *)
(* moved to leaving or closed, its subscribe callback does not receive     *)
(* CLOSED and the channel stays in the client's channel set.               *)
(***************************************************************************)
RejoinFiresOpen(c) ==
  op'.name = "rejoin" /\ op'.c = c /\ chan[c].state \in {"joining", "joined"}

C39_RejoinKeepsSelf ==
  [][\A c \in Chans :
       RejoinFiresOpen(c)
         => /\ chan'[c].state \notin {"leaving", "closed"}
            /\ \A i \in 1..Len(cbs') : cbs'[i] # <<c, "CLOSED">>
            /\ Registered(c) => Registered(c)']_vars

\* the rejoin of a channel that is joining or joined, fired while the socket
\* is down, leaves the channel as it is
C39_RejoinOfflineKeepsSelf ==
  [][\A c \in Chans :
       RejoinFiresOpen(c) /\ conn # "open"
         => /\ chan'[c].state = chan[c].state
            /\ cbs' = <<>>
            /\ Registered(c) => Registered(c)']_vars

(***************************************************************************)
(* C40: once setAuth has put a token into the join payload of a subscribed *)
(* channel, the next phx_join of the channel carries that token and still  *)
(* carries the config that subscribe put into the join payload.            *)
(***************************************************************************)
JoinPayload(c) == chan[c].joinPush.payload.returns

TokenGiven(c) == chan[c].joinedOnce /\ "access_token" \in DOMAIN JoinPayload(c)

\* the phx_join frames of channel c among the frames fs
JoinsSent(fs, c) ==
  {fs[i] : i \in {j \in 1..Len(fs) : fs[j].event = "phx_join" /\ fs[j].ref = chan'[c].joinPush.ref}}

C40_JoinKeepsConfig ==
  [][\A c \in Chans :
       TokenGiven(c) =>
         \A f \in JoinsSent(pushed', c) :
           /\ {"access_token", "config"} \subseteq DOMAIN f.payload
           /\ f.payload.access_token = JoinPayload(c).access_token
           /\ f.payload.config = chan'[c].config]_vars

\* the phx_join a rejoin sends after setAuth carries the token, and nothing
\* else
C40_RejoinCarriesTokenOnly ==
  [][\A c \in Chans :
       TokenGiven(c) /\ op'.name = "rejoin" =>
         \A f \in JoinsSent(pushed', c) :
           f.payload = [access_token |-> JoinPayload(c).access_token]]_vars

\* the phx_join a subscribe() sends carries the config, and nothing else
C40_SubscribeCarriesConfigOnly ==
  [][\A c \in Chans :
       op'.name = "subscribe" =>
         \A f \in JoinsSent(pushed', c) : f.payload = [config |-> chan'[c].config]]_vars

\* a rejoin has sent a phx_join after setAuth gave the channel a token
C40_RejoinedWithToken ==
  /\ op.name = "rejoin" /\ accessToken = Jwt
  /\ \E i \in 1..Len(pushed) :
       /\ pushed[i].event = "phx_join"
       /\ pushed[i].payload = [access_token |-> Jwt]

====
